---- MODULE Spec2Model ----
(***************************************************************************)
(* SignalCheck: the multi-signal scoring pipeline.                         *)
(*                                                                         *)
(* The module models, from the JavaScript sources,                         *)
(*   - the aggregator (aggregate),                                         *)
(*   - the HuggingFace inference client (hfInference and its three typed   *)
(*     wrappers),                                                          *)
(*   - the NewsAPI corroboration client (checkCorroboration),              *)
(*   - the five signal analyzers, and                                      *)
(*   - the POST /analyze route that fans the analyzers out and joins them. *)
(*                                                                         *)
(* Text is represented by what the code extracts from it: the counts that  *)
(* its split / match / indexOf scans return.  Fractions are compared by    *)
(* cross-multiplication, so no rounding error enters the model.            *)
(***************************************************************************)
EXTENDS Integers, Sequences, FiniteSets, TLC

VARIABLES
    agg,     \* one call of aggregate(signals, content)
    hf,      \* one call of a typed wrapper of the inference client
    corr,    \* one call of checkCorroboration(content)
    sig,     \* one call of one analyzer
    route,   \* one POST /analyze request
    fb       \* the feedback route's module and its POST /feedback requests

vars == <<agg, hf, corr, sig, route, fb>>

----------------------------------------------------------------------------
(* JavaScript values the code tests for truthiness *)

Undefined == "<undefined>"
Null == "<null>"

Falsy(v) == v \in {Undefined, Null, ""}

\* NaN as a score: no score computation yields -1.  A sum with NaN is NaN and
\* every comparison with NaN is false.
NaN == 0 - 1

Min(a, b) == IF a < b THEN a ELSE b
Max(a, b) == IF a > b THEN a ELSE b

\* Math.round(n / d) for n >= 0, d > 0: the nearest integer, halves upwards
Round(n, d) == (2 * n + d) \div (2 * d)

\* arr.slice(0, n)
Slice(s, n) == SubSeq(s, 1, Min(n, Len(s)))

\* s[1] + ... + s[n]
RECURSIVE SumTo(_, _)
SumTo(s, n) == IF n = 0 THEN 0 ELSE s[n] + SumTo(s, n - 1)

SumSeq(s) == SumTo(s, Len(s))

Range(s) == {s[i] : i \in DOMAIN s}

----------------------------------------------------------------------------
(* Aggregator *)

Levels == {"low", "medium", "high"}

\* the fixed keys of the signals object, in the order aggregate lists them
Keys == <<"syntheticText", "sourcing", "linguistic", "temporal", "structural">>

names == <<"Synthetic Text", "Sourcing", "Linguistic Risk", "Temporal", "Structural">>

allSignals(signals) == [i \in 1..Len(Keys) |-> signals[Keys[i]]]

scores(signals) == [i \in 1..Len(Keys) |-> allSignals(signals)[i].score]

levels(signals) == [i \in 1..Len(Keys) |-> allSignals(signals)[i].level]

IsHigh(l) == l = "high"
IsMedium(l) == l = "medium"

highCount(signals) == Len(SelectSeq(levels(signals), IsHigh))

mediumCount(signals) == Len(SelectSeq(levels(signals), IsMedium))

\* avgScore >= k, with avgScore = sum / scores.length
avgScoreAtLeast(signals, k) ==
    /\ NaN \notin Range(scores(signals))
    /\ SumSeq(scores(signals)) >= k * Len(scores(signals))

confidenceBandBad(signals) ==
    IF highCount(signals) >= 3 \/ avgScoreAtLeast(signals, 65) THEN "high"
    ELSE IF highCount(signals) >= 1 \/ mediumCount(signals) >= 3 THEN "medium"
    ELSE "low"

confidenceBandLax(signals) ==
    IF highCount(signals) >= 3 \/ avgScoreAtLeast(signals, 65) THEN "high"
    ELSE IF highCount(signals) >= 1 \/ mediumCount(signals) >= 3
            \/ avgScoreAtLeast(signals, 20) THEN "medium"
    ELSE "low"

confidenceBandExact(signals) ==
    IF highCount(signals) = 3 \/ avgScoreAtLeast(signals, 65) THEN "high"
    ELSE IF highCount(signals) >= 1 \/ mediumCount(signals) >= 3
            \/ avgScoreAtLeast(signals, 35) THEN "medium"
    ELSE "low"

\* the band the two counts give when the mean is left out
countBand(signals) ==
    IF highCount(signals) >= 3 THEN "high"
    ELSE IF highCount(signals) >= 1 \/ mediumCount(signals) >= 3 THEN "medium"
    ELSE "low"

confidenceBand(signals) ==
    IF highCount(signals) >= 3 \/ avgScoreAtLeast(signals, 65) THEN "high"
    ELSE IF highCount(signals) >= 1 \/ mediumCount(signals) >= 3
            \/ avgScoreAtLeast(signals, 35) THEN "medium"
    ELSE "low"

\* names[i] for every i whose level is lv, in index order (levels.forEach)
RECURSIVE NamesAt(_, _, _)
NamesAt(lvls, lv, i) ==
    IF i > Len(lvls) THEN <<>>
    ELSE (IF lvls[i] = lv THEN <<names[i]>> ELSE <<>>) \o NamesAt(lvls, lv, i + 1)

\* The one disagreement sentence: the joined names of each side and the two
\* number agreements of the template ("signal"/"signals", "appear"/"appears").
Sentence(highSignals, lowSignals) ==
    [high |-> highSignals,
     signalWord |-> IF Len(highSignals) > 1 THEN "signals" ELSE "signal",
     low |-> lowSignals,
     appearWord |-> IF Len(lowSignals) = 1 THEN "appears" ELSE "appear"]

disagreementsBad(signals) ==
    LET lvls == levels(signals)
        highSignals == NamesAt(lvls, "high", 1)
        lowSignals == NamesAt(lvls, "medium", 1)
    IN  IF "high" \in Range(lvls) /\ "low" \in Range(lvls)
        THEN <<Sentence(highSignals, lowSignals)>>
        ELSE <<>>

disagreements(signals) ==
    LET lvls == levels(signals)
        highSignals == NamesAt(lvls, "high", 1)
        lowSignals == NamesAt(lvls, "low", 1)
    IN  IF "high" \in Range(lvls) /\ "low" \in Range(lvls)
        THEN IF Len(highSignals) > 0 /\ Len(lowSignals) > 0
             THEN <<Sentence(highSignals, lowSignals)>>
             ELSE <<>>
        ELSE <<>>

concernPhrase ==
    [syntheticText |-> "some patterns resembling generated text",
     sourcing |-> "limited source attribution",
     linguistic |-> "elevated emotional or certainty language",
     temporal |-> "weak temporal context or corroboration",
     structural |-> "structural framing concerns"]

IsNotLowKey(signals, k) == signals[k].level # "low"

\* The summary: its template and what is filled into it.  The medium template
\* lists concern phrases; the high template joins up to two explanations of
\* high signals, each named here by the key of the signal it belongs to.
summary(signals) ==
    LET band == confidenceBand(signals)
        NotLow(k) == IsNotLowKey(signals, k)
        High(k) == signals[k].level = "high"
    IN  IF band = "low" THEN [template |-> "low", fill |-> <<>>]
        ELSE IF band = "medium"
        THEN [template |-> "medium",
              fill |-> [i \in 1..Len(SelectSeq(Keys, NotLow)) |->
                            concernPhrase[SelectSeq(Keys, NotLow)[i]]]]
        ELSE [template |-> "high", fill |-> Slice(SelectSeq(Keys, High), 2)]

SuggestSourcing ==
    "Look for the same story reported by multiple independent news organizations with their own sourcing"
SuggestSynthetic ==
    "Check whether a named human author is associated with this content and has a verifiable track record"
SuggestLinguistic ==
    "Compare this content to coverage of the same topic that uses more measured language"
SuggestTemporal ==
    "Wait for the story to develop - initial reports are often incomplete or inaccurate"
SuggestStructural ==
    "Read beyond the headline - check if the body actually supports the framing"
SuggestSource ==
    "Try to identify the original source of this content for better context"
SuggestFallback1 ==
    "Cross-reference claims with other reputable sources before sharing"
SuggestFallback2 ==
    "Consider the broader context and whether this content is complete"

Push(cond, s) == IF cond THEN <<s>> ELSE <<>>

suggestionsBad(signals, content) ==
    LET rules ==
            Push(signals.sourcing.level # "low", SuggestSourcing)
            \o Push(signals.syntheticText.level # "low", SuggestSynthetic)
            \o Push(signals.linguistic.level # "low", SuggestLinguistic)
            \o Push(signals.temporal.level # "low", SuggestTemporal)
            \o Push(signals.structural.level # "low", SuggestStructural)
            \o Push(content.source = "manual-paste", SuggestSource)
    IN  IF Len(rules) = 0 THEN <<SuggestFallback1, SuggestFallback2>> ELSE rules

suggestions(signals, content) ==
    LET rules ==
            Push(signals.sourcing.level # "low", SuggestSourcing)
            \o Push(signals.syntheticText.level # "low", SuggestSynthetic)
            \o Push(signals.linguistic.level # "low", SuggestLinguistic)
            \o Push(signals.temporal.level # "low", SuggestTemporal)
            \o Push(signals.structural.level # "low", SuggestStructural)
            \o Push(Falsy(content.source) \/ content.source = "manual-paste",
                    SuggestSource)
    IN  IF Len(rules) = 0 THEN <<SuggestFallback1, SuggestFallback2>> ELSE rules

aggregate(signals, content) ==
    [confidenceBand |-> confidenceBand(signals),
     summary |-> summary(signals),
     suggestions |-> suggestions(signals, content),
     disagreements |-> disagreements(signals)]

----------------------------------------------------------------------------
(* A call of aggregate on any five SignalResults and any Content.source *)

\* The score grid of the arbitrary SignalResults: ScoreSteps + 1 values from 5
\* to 80, so that sums of five scores meet both mean cutoffs (5 * 35 = 175 and
\* 5 * 65 = 325) exactly as well as from either side.
ScoreSteps == 1

ScoreGrid == {5 + (75 * k) \div ScoreSteps : k \in 0..ScoreSteps}

AnySignal == [level : Levels, score : ScoreGrid]

AnySignals == [Range(Keys) -> AnySignal]

Sources == {Undefined, "", "manual-paste", "example.com"}

NoSignals == [k \in Range(Keys) |-> [level |-> "low", score |-> 0]]

NoAggregation ==
    [confidenceBand |-> "none", summary |-> [template |-> "none", fill |-> <<>>],
     suggestions |-> <<>>, disagreements |-> <<>>]

AggIdle ==
    [pc |-> "idle", signals |-> NoSignals, source |-> Undefined,
     result |-> NoAggregation]

\* aggregate(signals, content) is called and returns
Aggregate ==
    /\ agg.pc = "idle"
    /\ \E s \in AnySignals, src \in Sources :
         agg' = [pc |-> "returned", signals |-> s, source |-> src,
                 result |-> aggregate(s, [source |-> src])]
    /\ UNCHANGED <<hf, corr, sig, route, fb>>

\* the caller drops the result; the next call starts afresh
AggregateNext ==
    /\ agg.pc = "returned"
    /\ agg' = AggIdle
    /\ UNCHANGED <<hf, corr, sig, route, fb>>

----------------------------------------------------------------------------
(* Properties of aggregate *)

AggKeys == Range(Keys)

AggLevel(k) == agg.signals[k].level

AggCount(lv) == Cardinality({k \in AggKeys : AggLevel(k) = lv})

AggTotal ==
    agg.signals.syntheticText.score + agg.signals.sourcing.score
    + agg.signals.linguistic.score + agg.signals.temporal.score
    + agg.signals.structural.score

\* the position of a display name in the fixed order of names
NamePos(n) == CHOOSE i \in 1..Len(names) : names[i] = n

NamesOf(lv) == {names[i] : i \in {j \in 1..Len(Keys) : AggLevel(Keys[j]) = lv}}

\* s lists exactly the members of S, each once, in the fixed order of names
ListsInOrder(s, S) ==
    /\ Range(s) = S
    /\ Len(s) = Cardinality(S)
    /\ \A i, j \in 1..Len(s) : i < j => NamePos(s[i]) < NamePos(s[j])

\* C6: confidenceBand is high exactly when at least 3 of the 5 levels are high
\* or the mean score is >= 65; otherwise medium exactly when at least 1 level is
\* high, or at least 3 are medium, or the mean score is >= 35; otherwise low.
C6_BandRule ==
    agg.pc = "returned" =>
        LET high == AggCount("high") >= 3 \/ AggTotal >= 65 * 5
            medium == AggCount("high") >= 1 \/ AggCount("medium") >= 3
                        \/ AggTotal >= 35 * 5
        IN  /\ agg.result.confidenceBand = "high" <=> high
            /\ agg.result.confidenceBand = "medium" <=> (~high /\ medium)
            /\ agg.result.confidenceBand = "low" <=> (~high /\ ~medium)

\* C6 witness: no level is high, fewer than 3 are medium, and the mean of the
\* scores is exactly 35, so that the mean rule alone makes the band medium
C6_Witness ==
    /\ agg.pc = "returned"
    /\ AggCount("high") = 0
    /\ AggCount("medium") < 3
    /\ AggTotal = 35 * 5
    /\ agg.result.confidenceBand = "medium"

\* C8: disagreements is non-empty iff the levels contain a high and a low; it
\* then holds exactly one sentence whose high side lists exactly the high
\* signals and whose low side lists exactly the low signals, by their fixed
\* names in the fixed order, so no medium signal is named.  For three highs and
\* two lows the band is high and the sentence names all five.
C8_Disagreements ==
    agg.pc = "returned" =>
        LET d == agg.result.disagreements
        IN  /\ Len(d) > 0 <=> (AggCount("high") >= 1 /\ AggCount("low") >= 1)
            /\ Len(d) > 0 =>
                 /\ Len(d) = 1
                 /\ ListsInOrder(d[1].high, NamesOf("high"))
                 /\ ListsInOrder(d[1].low, NamesOf("low"))
                 /\ (Range(d[1].high) \cup Range(d[1].low)) \cap NamesOf("medium") = {}
            /\ (AggCount("high") = 3 /\ AggCount("low") = 2) =>
                 /\ agg.result.confidenceBand = "high"
                 /\ Len(d) = 1
                 /\ Len(d[1].high) = 3
                 /\ Len(d[1].low) = 2

\* C8 witness: high, high, high, low, low with its sentence
C8_Witness ==
    /\ agg.pc = "returned"
    /\ levels(agg.signals) = <<"high", "high", "high", "low", "low">>
    /\ agg.result.disagreements =
         <<[high |-> <<"Synthetic Text", "Sourcing", "Linguistic Risk">>,
            signalWord |-> "signals",
            low |-> <<"Temporal", "Structural">>,
            appearWord |-> "appear"]>>

SuggestionOf ==
    [syntheticText |-> SuggestSynthetic, sourcing |-> SuggestSourcing,
     linguistic |-> SuggestLinguistic, temporal |-> SuggestTemporal,
     structural |-> SuggestStructural]

SourceUnidentified == agg.source \in {Undefined, "", "manual-paste"}

\* C9: suggestions holds exactly one fixed string per analyzer whose level is
\* not low, plus the source-identification string exactly when Content.source
\* is absent, empty or 'manual-paste'; when none of the six rules fires it holds
\* exactly the two fallback strings.  It is never empty, has no duplicates and
\* has between 1 and 6 entries.
C9_Suggestions ==
    agg.pc = "returned" =>
        LET sg == agg.result.suggestions
            fired == {SuggestionOf[k] : k \in {j \in AggKeys : AggLevel(j) # "low"}}
                        \cup (IF SourceUnidentified THEN {SuggestSource} ELSE {})
        IN  /\ fired # {} => Range(sg) = fired
            /\ fired = {} => sg = <<SuggestFallback1, SuggestFallback2>>
            /\ Len(sg) = Cardinality(Range(sg))
            /\ Len(sg) \in 1..6

\* C9 witness: every level is low and the source is absent, so the
\* source-identification rule alone fires
C9_Witness ==
    /\ agg.pc = "returned"
    /\ AggCount("low") = 5
    /\ agg.source = Undefined
    /\ agg.result.suggestions = <<SuggestSource>>

----------------------------------------------------------------------------
(* JSON values, as JSON.parse returns them.  Numbers that stand for a class  *)
(* score or a probability are kept as a numerator over ProbDen.             *)

\* the resolution of the probabilities the remote models answer with
ProbDen == 10

JUndef == [t |-> "undefined"]
JNull == [t |-> "null"]
JNum(n) == [t |-> "num", num |-> n]
JStr(s) == [t |-> "str", str |-> s]
JArr(items) == [t |-> "arr", items |-> items]

Nullish(v) == v.t \in {"undefined", "null"}

\* v.name for a v that is neither null nor undefined
Prop(v, name) ==
    IF v.t = "obj" /\ name \in DOMAIN v THEN v[name] ELSE JUndef

ClassObj(label, score) == [t |-> "obj", label |-> JStr(label), score |-> JNum(score)]

Return(v) == [kind |-> "return", value |-> v]
Throw == [kind |-> "throw", value |-> JUndef]

\* all sequences over S of length 1..n
RECURSIVE SeqsUpTo(_, _)
SeqsUpTo(S, n) ==
    IF n = 0 THEN {}
    ELSE LET shorter == SeqsUpTo(S, n - 1)
         IN  {<<x>> : x \in S} \cup shorter
                \cup {Append(q, x) : q \in shorter, x \in S}

----------------------------------------------------------------------------
(* Inference client: the typed wrappers *)

\* labels.find(l => l.label === 'LABEL_1' || l.label === 'Fake'), from index i
RECURSIVE FindFake(_, _)
FindFake(items, i) ==
    IF i > Len(items) THEN Return(JUndef)
    ELSE IF Nullish(items[i]) THEN Throw
    ELSE IF Prop(items[i], "label") \in {JStr("LABEL_1"), JStr("Fake")}
         THEN Return(items[i])
    ELSE FindFake(items, i + 1)

\* result[0] ?? result
FirstOrSelf(result) ==
    LET first == IF Len(result.items) >= 1 THEN result.items[1] ELSE JUndef
    IN  IF Nullish(first) THEN result ELSE first

\* detectSynthetic after its await: result is what hfInference returned
detectSynthetic(result) ==
    IF result.t # "arr" THEN Return(JNull)
    ELSE LET labels == FirstOrSelf(result)
         IN  IF labels.t # "arr" THEN Throw
             ELSE LET fakeLabel == FindFake(labels.items, 1)
                  IN  IF fakeLabel.kind = "throw" THEN Throw
                      ELSE IF fakeLabel.value = JUndef THEN Return(JNull)
                      ELSE Return(Prop(fakeLabel.value, "score"))

\* e.entity?.replace(/^[BI]-/, '') for the tags of the NER model
StripBI(tag) ==
    CASE tag \in {"B-PER", "I-PER"} -> "PER"
      [] tag \in {"B-ORG", "I-ORG"} -> "ORG"
      [] tag \in {"B-LOC", "I-LOC"} -> "LOC"
      [] tag \in {"B-MISC", "I-MISC"} -> "MISC"
      [] OTHER -> tag

\* e.entity_group ?? (e.entity?.replace(/^[BI]-/, '') || 'MISC');
\* "<throw>" when e.entity has no replace method
entityGroup(e) ==
    LET g == Prop(e, "entity_group")
        en == Prop(e, "entity")
    IN  IF ~Nullish(g) THEN g
        ELSE IF Nullish(en) THEN JStr("MISC")
        ELSE IF en.t # "str" THEN JStr("<throw>")
        ELSE IF StripBI(en.str) = "" THEN JStr("MISC")
        ELSE JStr(StripBI(en.str))

\* the unique words of the entities of one group: [...new Set(...)].length
UniqueWords(entities, group) ==
    {entities[i].word : i \in {j \in DOMAIN entities : entities[j].entity_group = JStr(group)}}

\* analyzeEntities after its await
analyzeEntities(result) ==
    IF result.t # "arr" THEN Return(JNull)
    ELSE IF \E i \in DOMAIN result.items :
                \/ Nullish(result.items[i])
                \/ entityGroup(result.items[i]) = JStr("<throw>")
         THEN Throw
    ELSE LET entities ==
                 [i \in DOMAIN result.items |->
                     [word |-> Prop(result.items[i], "word"),
                      entity_group |-> entityGroup(result.items[i]),
                      score |-> Prop(result.items[i], "score")]]
         IN  Return([t |-> "entities",
                     person_count |-> Cardinality(UniqueWords(entities, "PER")),
                     org_count |-> Cardinality(UniqueWords(entities, "ORG")),
                     entities |-> entities])

\* l.label.toLowerCase() for the labels of the sentiment models
ToLowerCase(str) ==
    CASE str = "LABEL_0" -> "label_0"
      [] str = "LABEL_1" -> "label_1"
      [] str = "LABEL_2" -> "label_2"
      [] str = "Positive" -> "positive"
      [] str = "Neutral" -> "neutral"
      [] str = "Negative" -> "negative"
      [] OTHER -> str

\* key.replace('label_', '')
StripLabel(key) ==
    CASE key = "label_0" -> "0"
      [] key = "label_1" -> "1"
      [] key = "label_2" -> "2"
      [] OTHER -> key

friendlyKey(label) ==
    LET key == StripLabel(ToLowerCase(label))
    IN  IF key = "0" THEN "negative"
        ELSE IF key = "1" THEN "neutral"
        ELSE IF key = "2" THEN "positive"
        ELSE key

friendlyTop(label) ==
    IF label = "0" THEN "negative"
    ELSE IF label = "1" THEN "neutral"
    ELSE IF label = "2" THEN "positive"
    ELSE ToLowerCase(label)

\* a > b on JSON values: false unless both are numbers
Greater(a, b) == a.t = "num" /\ b.t = "num" /\ a.num > b.num

\* topLabel?.score ?? 0
ScoreOrZero(l) == IF Nullish(Prop(l, "score")) THEN JNum(0) ELSE Prop(l, "score")

\* the for loop of analyzeSentiment from index i: the last score written under
\* each friendly key, and the running topLabel
RECURSIVE SentimentLoop(_, _, _, _)
SentimentLoop(items, i, scoreMap, topLabel) ==
    IF i > Len(items) THEN [scores |-> scoreMap, topLabel |-> topLabel]
    ELSE LET l == items[i]
             k == friendlyKey(l.label.str)
             written == [x \in DOMAIN scoreMap \cup {k} |->
                            IF x = k THEN Prop(l, "score") ELSE scoreMap[x]]
             top == IF Greater(Prop(l, "score"), ScoreOrZero(topLabel)) THEN l ELSE topLabel
             \* the next turn of the loop, with scores and topLabel as they are now
         IN  CHOOSE done \in {SentimentLoop(items, i + 1, m, t) : m \in {written}, t \in {top}} :
                TRUE

EmptyMap == [x \in {} |-> JUndef]

\* analyzeSentiment after its await
analyzeSentiment(result) ==
    IF result.t # "arr" THEN Return(JNull)
    ELSE LET labels == FirstOrSelf(result)
         IN  IF labels.t # "arr" THEN Throw
             ELSE IF \E i \in DOMAIN labels.items :
                        \/ Nullish(labels.items[i])
                        \/ Prop(labels.items[i], "label").t # "str"
                  THEN Throw
             ELSE IF Len(labels.items) = 0 THEN Throw
             ELSE CHOOSE r \in {Return([t |-> "sentiment",
                                       label |-> friendlyTop(done.topLabel.label.str),
                                       score |-> Prop(done.topLabel, "score"),
                                       scores |-> done.scores]) :
                                  done \in {SentimentLoop(labels.items, 1, EmptyMap,
                                                          labels.items[1])}} : TRUE

Wrappers == {"detectSynthetic", "analyzeEntities", "analyzeSentiment"}

wrapperReturn(w, result) ==
    CASE w = "detectSynthetic" -> detectSynthetic(result)
      [] w = "analyzeEntities" -> analyzeEntities(result)
      [] w = "analyzeSentiment" -> analyzeSentiment(result)

----------------------------------------------------------------------------
(* The answers of the remote inference service *)

\* the longest array of arbitrary elements in a response body
MaxItems == 2

\* the longest entity list of a NER response
MaxEntities == 3

Probs == 0..ProbDen

\* bodies that are no array, and arrays without a class object
MalformedBodies ==
    {JNull, JNum(1), JStr("loading"), [t |-> "obj", error |-> JStr("Model too busy")],
     JArr(<<>>), JArr(<<JArr(<<>>)>>), JArr(<<JNum(1)>>), JArr(<<JStr("")>>)}

SyntheticElems ==
    {ClassObj(l, sc) : l \in {"LABEL_1", "LABEL_0"}, sc \in {0, ProbDen \div 2, ProbDen}}
        \cup {JNull, [t |-> "obj", label |-> JStr("LABEL_1")]}

\* [[{label: 'LABEL_1', score: p}, {label: 'LABEL_0', score: 1 - p}]], either order
SyntheticWellFormed ==
    {JArr(<<JArr(<<ClassObj("LABEL_1", n), ClassObj("LABEL_0", ProbDen - n)>>)>>) : n \in Probs}
        \cup {JArr(<<JArr(<<ClassObj("LABEL_0", ProbDen - n), ClassObj("LABEL_1", n)>>)>>) : n \in Probs}

SentimentElems ==
    {ClassObj(l, sc) : l \in {"negative", "LABEL_0", "2"}, sc \in {1, ProbDen - 1}}
        \cup {JNull, [t |-> "obj", score |-> JNum(1)]}

SentimentSchemes ==
    {<<"negative", "neutral", "positive">>, <<"LABEL_0", "LABEL_1", "LABEL_2">>,
     <<"0", "1", "2">>}

\* the three class scores, each at least 1 / ProbDen, adding up to 1
ScoreTriples ==
    {t \in (1..ProbDen) \X (1..ProbDen) \X (1..ProbDen) : t[1] + t[2] + t[3] = ProbDen}

Orders == {<<1, 2, 3>>, <<3, 2, 1>>, <<2, 3, 1>>}

\* three classes under one naming scheme, nested as the service answers or flat
SentimentWellFormed ==
    LET classes(sch, t, o) == [i \in 1..3 |-> ClassObj(sch[o[i]], t[o[i]])]
    IN  {JArr(<<JArr(classes(sch, t, o))>>) :
            sch \in SentimentSchemes, t \in ScoreTriples, o \in Orders}
        \cup {JArr(classes(sch, t, <<1, 2, 3>>)) : sch \in SentimentSchemes, t \in ScoreTriples}

Entity(word, group) ==
    [t |-> "obj", word |-> JStr(word), entity_group |-> JStr(group), score |-> JNum(ProbDen)]

EntityElems ==
    {Entity(w, g) : w \in {"Reuters", "Smith"}, g \in {"PER", "ORG"}}
        \cup {Entity("Paris", "LOC"),
              [t |-> "obj", word |-> JStr("Jones"), entity |-> JStr("B-PER")],
              [t |-> "obj", word |-> JStr("x"), entity |-> JNum(1)],
              JNull}

ArraysOf(elems, n) ==
    LET flat == {JArr(q) : q \in SeqsUpTo(elems, n)}
    IN  flat \cup {JArr(<<a>>) : a \in flat}

\* the JSON bodies a 2xx answer to a wrapper's request is drawn from
Bodies(w) ==
    MalformedBodies \cup
    CASE w = "detectSynthetic" -> ArraysOf(SyntheticElems, MaxItems) \cup SyntheticWellFormed
      [] w = "analyzeSentiment" -> ArraysOf(SentimentElems, MaxItems) \cup SentimentWellFormed
      [] w = "analyzeEntities" -> {JArr(q) : q \in SeqsUpTo(EntityElems, MaxEntities)}

\* a body that is no JSON at all: res.json() rejects
NotJson == [t |-> "not-json"]

Statuses == {200, 404, 429, 500, 503}

\* res.ok
Ok(status) == 200 <= status /\ status <= 299

----------------------------------------------------------------------------
(* Inference client: hfInference under a typed wrapper *)

\* the condition of the one retry
shouldRetryBad(status, retried) == status = 503

shouldRetry(status, retried) == status = 503 /\ ~retried

\* setTimeout(r, 10000)
BackoffMs == 10000

\* AbortSignal.timeout(25000)
TimeoutMs == 25000

Request == [ev |-> "request", n |-> 0]
Response(status) == [ev |-> "response", n |-> status]
Failure(why) == [ev |-> why, n |-> 0]
Timer(ms) == [ev |-> "timer", n |-> ms]

HfIdle ==
    [pc |-> "idle", wrapper |-> "none", retried |-> FALSE, log |-> <<>>,
     body |-> JUndef, result |-> JUndef, outcome |-> Return(JUndef)]

\* a wrapper is called and hfInference sends its request
HfCall ==
    /\ hf.pc = "idle"
    /\ \E w \in Wrappers :
         hf' = [hf EXCEPT !.pc = "fetch", !.wrapper = w, !.log = <<Request>>]
    /\ UNCHANGED <<agg, corr, sig, route, fb>>

\* fetch rejects (network error, or the 25 s timeout aborts it): catch, null
HfFetchFails ==
    /\ hf.pc = "fetch"
    /\ \E why \in {"network-error", "timeout"} :
         hf' = [hf EXCEPT !.pc = "returned", !.log = Append(@, Failure(why)),
                          !.result = JNull]
    /\ UNCHANGED <<agg, corr, sig, route, fb>>

\* the answer is 503 and no retry was made yet: wait
HfLoading ==
    /\ hf.pc = "fetch"
    /\ \E status \in Statuses :
         /\ shouldRetry(status, hf.retried)
         /\ hf' = [hf EXCEPT !.pc = "backoff", !.log = Append(@, Response(status))]
    /\ UNCHANGED <<agg, corr, sig, route, fb>>

\* the timer fires: hfInference(model, inputs, true) sends the second request
HfRetry ==
    /\ hf.pc = "backoff"
    /\ hf' = [hf EXCEPT !.pc = "fetch", !.retried = TRUE,
                        !.log = @ \o <<Timer(BackoffMs), Request>>]
    /\ UNCHANGED <<agg, corr, sig, route, fb>>

\* any other answer that is not ok: null
HfNotOk ==
    /\ hf.pc = "fetch"
    /\ \E status \in Statuses :
         /\ ~shouldRetry(status, hf.retried)
         /\ ~Ok(status)
         /\ hf' = [hf EXCEPT !.pc = "returned", !.log = Append(@, Response(status)),
                             !.result = JNull]
    /\ UNCHANGED <<agg, corr, sig, route, fb>>

\* an ok answer: res.json(), or null when the body does not parse
HfOk ==
    /\ hf.pc = "fetch"
    /\ \E status \in Statuses, body \in Bodies(hf.wrapper) \cup {NotJson} :
         /\ ~shouldRetry(status, hf.retried)
         /\ Ok(status)
         /\ hf' = [hf EXCEPT !.pc = "returned", !.log = Append(@, Response(status)),
                             !.body = body,
                             !.result = IF body = NotJson THEN JNull ELSE body]
    /\ UNCHANGED <<agg, corr, sig, route, fb>>

\* the wrapper goes on with what hfInference returned
HfWrapper ==
    /\ hf.pc = "returned"
    /\ hf' = [hf EXCEPT !.pc = "done", !.outcome = wrapperReturn(hf.wrapper, hf.result)]
    /\ UNCHANGED <<agg, corr, sig, route, fb>>

HfNext ==
    /\ hf.pc = "done"
    /\ hf' = HfIdle
    /\ UNCHANGED <<agg, corr, sig, route, fb>>

----------------------------------------------------------------------------
(* Properties of the inference client *)

\* C2: whatever the remote service answers, each typed wrapper completes with
\* a parsed result or null and never raises an exception.
C2_WrapperNeverThrows ==
    hf.pc = "done" => hf.outcome.kind = "return"

HfRequests == Cardinality({i \in DOMAIN hf.log : hf.log[i] = Request})

HfSettled == hf.pc \in {"returned", "done"}

\* C3: a first response 503 causes exactly one further request, sent only after
\* the fixed backoff; a second response 200 makes the call return the parsed
\* body of that second response, a second 503 makes it return null without a
\* third request; any other non-success first response returns null, no retry.
C3_OneRetry ==
    /\ HfRequests <= 2
    /\ \A i \in DOMAIN hf.log :
         (i > 1 /\ hf.log[i] = Request) =>
            /\ i = 4
            /\ hf.log[2] = Response(503)
            /\ hf.log[3] = Timer(BackoffMs)
    /\ (HfSettled /\ hf.log[2] = Response(503)) =>
         /\ HfRequests = 2
         /\ Len(hf.log) = 5
         /\ (hf.log[5] = Response(200) /\ hf.body # NotJson) => hf.result = hf.body
         /\ hf.log[5] = Response(503) => hf.result = JNull
    /\ (HfSettled /\ hf.log[2].ev = "response" /\ ~Ok(hf.log[2].n)
            /\ hf.log[2] # Response(503)) =>
         /\ HfRequests = 1
         /\ hf.result = JNull

\* C3 witness: 503, the backoff, then 200 with a well-formed body, returned
C3_Witness ==
    /\ hf.pc = "returned"
    /\ hf.log = <<Request, Response(503), Timer(BackoffMs), Request, Response(200)>>
    /\ hf.body \in SyntheticWellFormed
    /\ hf.result = hf.body

\* the sentiment class a label names, by name or by numeric id
SentimentClass(label) ==
    CASE label \in {"negative", "0", "LABEL_0"} -> "negative"
      [] label \in {"neutral", "1", "LABEL_1"} -> "neutral"
      [] label \in {"positive", "2", "LABEL_2"} -> "positive"

\* analyzeSentiment has returned on the three classes of the service, nested
\* as the service answers
SentimentAnswered ==
    /\ hf.pc = "done" /\ hf.wrapper = "analyzeSentiment"
    /\ hf.result \in SentimentWellFormed
    /\ hf.result.items[1].t = "arr"

\* C17: on every well-formed three-class response, labelled by name or by
\* numeric id (0/1/2, LABEL_0/1/2), analyzeSentiment returns a label among
\* positive, neutral and negative that names a class of highest score, that
\* score, and a scores map whose keys are exactly these three names.
C17_SentimentNormalised ==
    SentimentAnswered =>
        LET classes == hf.result.items[1].items
            top == {i \in 1..3 : \A j \in 1..3 : classes[i].score.num >= classes[j].score.num}
        IN  /\ hf.outcome.kind = "return"
            /\ hf.outcome.value.label \in {"positive", "neutral", "negative"}
            /\ \E i \in top :
                  /\ hf.outcome.value.label = SentimentClass(classes[i].label.str)
                  /\ hf.outcome.value.score = classes[i].score
            /\ DOMAIN hf.outcome.value.scores = {"positive", "neutral", "negative"}
            /\ \A i \in 1..3 :
                  hf.outcome.value.scores[SentimentClass(classes[i].label.str)]
                      = classes[i].score

----------------------------------------------------------------------------
(* Corroboration client *)

\* A text is represented by the set of its distinct lower-cased words longer
\* than 3 characters, the words being numbered.
\* textSimilarity(a, b) as the fraction <<intersection, union>>
textSimilarity(wordsA, wordsB) ==
    LET intersection == Cardinality(wordsA \cap wordsB)
        union == Cardinality(wordsA \cup wordsB)
    IN  IF union > 0 THEN <<intersection, union>> ELSE <<0, 1>>

\* sim > 0.35
simIsHighBad(sim) == 100 * sim[1] >= 35 * sim[2]

simIsHigh(sim) == 100 * sim[1] > 35 * sim[2]

\* the query of extractKeywords: the keywords joined by one space each; a
\* keyword list is represented by the lengths of its words
queryLength(keywords) ==
    IF Len(keywords) = 0 THEN 0 ELSE SumSeq(keywords) + Len(keywords) - 1

SampleSize == 8
SurfacedSize == 5
MinQueryLength == 10
MinSources == 3
MaxOverlapping == 3

\* the for loop over articles.slice(0, 8), from index i
RECURSIVE corroborationLoop(_, _, _, _)
corroborationLoop(bodyWords, sample, i, acc) ==
    IF i > Len(sample) THEN acc
    ELSE LET article == sample[i]
             sim == textSimilarity(bodyWords, article.words)
         IN  corroborationLoop(bodyWords, sample, i + 1,
                [sources |-> Append(acc.sources,
                                [source |-> article.name,
                                 similarity |-> Round(100 * sim[1], sim[2])]),
                 sourceDomains |-> IF Falsy(article.name) THEN acc.sourceDomains
                                   ELSE acc.sourceDomains \cup {article.name},
                 highSimilarityCount |-> IF simIsHigh(sim)
                                         THEN acc.highSimilarityCount + 1
                                         ELSE acc.highSimilarityCount])

independentPhrasingBad(uniqueSourceCount, highSimilarityCount) ==
    highSimilarityCount < MaxOverlapping

independentPhrasing(uniqueSourceCount, highSimilarityCount) ==
    uniqueSourceCount >= MinSources /\ highSimilarityCount < MaxOverlapping

corroborationSummaryBad(independent, uniqueSourceCount) ==
    IF independent
    THEN [template |-> "independent sources report on this topic with different phrasing",
          n |-> uniqueSourceCount]
    ELSE [template |-> "sources covering similar claims, but phrasing overlap is high",
          n |-> uniqueSourceCount]

corroborationSummary(independent, uniqueSourceCount) ==
    IF independent
    THEN [template |-> "independent sources report on this topic with different phrasing",
          n |-> uniqueSourceCount]
    ELSE IF uniqueSourceCount > 0
    THEN [template |-> "sources covering similar claims, but phrasing overlap is high",
          n |-> uniqueSourceCount]
    ELSE [template |-> "No independent corroboration found in recent news.", n |-> 0]

NoArticlesResultBad == JNull

NoArticlesResult ==
    [t |-> "result", found |-> 0, sources |-> <<>>, uniqueSourceCount |-> 0,
     independentPhrasing |-> FALSE, hasQuery |-> FALSE,
     summary |-> [template |-> "No related articles found in recent news.", n |-> 0]]

\* checkCorroboration after a 2xx answer whose body parsed to data
corroborationResult(bodyWords, data) ==
    IF Nullish(data) THEN JNull
    ELSE LET articles == IF Nullish(Prop(data, "articles")) THEN <<>>
                         ELSE data.articles.items
         IN  IF Len(articles) = 0 THEN NoArticlesResult
             ELSE LET sample == Slice(articles, SampleSize)
                  IN  IF \E i \in DOMAIN sample : Nullish(sample[i]) THEN JNull
                      ELSE LET acc == corroborationLoop(bodyWords, sample, 1,
                                        [sources |-> <<>>, sourceDomains |-> {},
                                         highSimilarityCount |-> 0])
                               uniqueSourceCount == Cardinality(acc.sourceDomains)
                               independent ==
                                   independentPhrasing(uniqueSourceCount,
                                                       acc.highSimilarityCount)
                           IN  [t |-> "result",
                                found |-> Len(articles),
                                sources |-> Slice(acc.sources, SurfacedSize),
                                uniqueSourceCount |-> uniqueSourceCount,
                                independentPhrasing |-> independent,
                                hasQuery |-> TRUE,
                                summary |-> corroborationSummary(independent,
                                                                 uniqueSourceCount)]

----------------------------------------------------------------------------
(* The answers of the news search service *)

\* the longest article list answered
MaxArticles == 9

\* the words of content.body.slice(0, 800)
BodyWords == 1..7

Article(name, words) == [t |-> "article", name |-> name, words |-> words]

\* The kinds of article answered.  Against BodyWords their similarities are
\* 0, exactly 0.35 (7/20), 0 and 0.125, then 0.875, 0.375 and 1; the last kind
\* is a null entry of the list.
ArticlePool ==
    <<Article("Reuters", {21, 22, 23}),
      Article("BBC", 1..20),
      Article("NPR", {}),
      Article("AFP", {1, 21}),
      Article("Reuters", (1..7) \cup {21}),
      Article("BBC", {1, 2, 3, 21}),
      Article(Undefined, 1..7),
      JNull>>

\* the index lists of length <= n whose entries do not decrease
RECURSIVE Ascending(_)
Ascending(n) ==
    IF n = 0 THEN {<<>>}
    ELSE LET shorter == Ascending(n - 1)
         IN  shorter \cup
             {qk[1] \o <<qk[2]>> :
                qk \in {x \in shorter \X DOMAIN ArticlePool :
                            /\ Len(x[1]) = n - 1
                            /\ n > 1 => x[1][n - 1] <= x[2]}}

\* The article lists answered: every selection of up to MaxArticles articles
\* of the pool, in the pool's order or in the reverse order.
IndexLists == Ascending(MaxArticles)

ArticleList(q, reversed) ==
    [i \in 1..Len(q) |-> ArticlePool[IF reversed THEN q[Len(q) + 1 - i] ELSE q[i]]]

\* the parsed bodies of a 2xx answer that hold no article list
OtherNewsData == {JNull, [t |-> "obj", status |-> JStr("error")]}

\* the keyword lists extractKeywords finds: none, one word of 9 letters, one of
\* 10 letters
KeywordLists == {<<>>, <<9>>, <<10>>}

\* AbortSignal.timeout(8000)
NewsTimeoutMs == 8000

----------------------------------------------------------------------------
(* checkCorroboration *)

CorrIdle ==
    [pc |-> "idle", configured |-> FALSE, keywords |-> <<>>, log |-> <<>>,
     data |-> JUndef, result |-> JUndef]

\* checkCorroboration(content) is called: null without a key or with a query
\* shorter than 10 characters, else the request is sent
CorrCall ==
    /\ corr.pc = "idle"
    /\ \E configured \in BOOLEAN, keywords \in KeywordLists :
         corr' = IF ~configured \/ queryLength(keywords) < MinQueryLength
                 THEN [corr EXCEPT !.pc = "done", !.configured = configured,
                                   !.keywords = keywords, !.result = JNull]
                 ELSE [corr EXCEPT !.pc = "fetch", !.configured = configured,
                                   !.keywords = keywords, !.log = <<Request>>]
    /\ UNCHANGED <<agg, hf, sig, route, fb>>

\* fetch rejects (network error, or the 8 s timeout aborts it): catch, null
CorrFetchFails ==
    /\ corr.pc = "fetch"
    /\ \E why \in {"network-error", "timeout"} :
         corr' = [corr EXCEPT !.pc = "done", !.log = Append(@, Failure(why)),
                              !.result = JNull]
    /\ UNCHANGED <<agg, hf, sig, route, fb>>

\* an answer that is not ok: null, no retry
CorrNotOk ==
    /\ corr.pc = "fetch"
    /\ \E status \in Statuses :
         /\ ~Ok(status)
         /\ corr' = [corr EXCEPT !.pc = "done", !.log = Append(@, Response(status)),
                                 !.result = JNull]
    /\ UNCHANGED <<agg, hf, sig, route, fb>>

CorrAnswer(status, data) ==
    corr' = [corr EXCEPT
                !.pc = "done", !.log = Append(@, Response(status)),
                !.data = data,
                !.result = IF data = NotJson THEN JNull
                           ELSE corroborationResult(BodyWords, data)]

\* an ok answer: the verdict, or null when the body does not parse
CorrOk ==
    /\ corr.pc = "fetch"
    /\ \E status \in Statuses :
         /\ Ok(status)
         /\ \/ \E data \in OtherNewsData \cup {NotJson} : CorrAnswer(status, data)
            \/ \E q \in IndexLists, reversed \in BOOLEAN :
                 CorrAnswer(status, [t |-> "obj",
                                     articles |-> JArr(ArticleList(q, reversed))])
    /\ UNCHANGED <<agg, hf, sig, route, fb>>

CorrNext ==
    /\ corr.pc = "done"
    /\ corr' = CorrIdle
    /\ UNCHANGED <<agg, hf, sig, route, fb>>

----------------------------------------------------------------------------
(* Properties of checkCorroboration *)

CorrArticles ==
    IF corr.data.t = "obj" /\ "articles" \in DOMAIN corr.data
    THEN corr.data.articles.items ELSE <<>>

\* the articles the verdict is computed from
CorrSample == [i \in 1..Min(8, Len(CorrArticles)) |-> CorrArticles[i]]

CorrNames ==
    {CorrSample[i].name : i \in DOMAIN CorrSample} \ {Undefined}

\* the sampled articles that share more than 35 in 100 of the words that they
\* and the body hold together
CorrOverlapping ==
    {i \in DOMAIN CorrSample :
        100 * Cardinality(CorrSample[i].words \cap BodyWords)
            > 35 * Cardinality(CorrSample[i].words \cup BodyWords)}

CorrAnswered ==
    /\ corr.pc = "done"
    /\ corr.result # JNull
    /\ Len(CorrArticles) > 0

\* C10: for every non-empty article list answered, independentPhrasing =
\* (distinct source names among the first 8 articles >= 3) AND (those of the
\* first 8 whose similarity exceeds 0.35 number < 3): 4 distinct names with no
\* article above 0.35 give true; 3 or more above 0.35 give false.
C10_IndependentPhrasing ==
    CorrAnswered =>
        /\ corr.result.independentPhrasing
             <=> (Cardinality(CorrNames) >= 3 /\ Cardinality(CorrOverlapping) < 3)
        /\ (Cardinality(CorrNames) = 4 /\ Cardinality(CorrOverlapping) = 0)
             => corr.result.independentPhrasing
        /\ Cardinality(CorrOverlapping) >= 3 => ~corr.result.independentPhrasing

\* C10 witness: 4 distinct source names, one article at exactly 0.35 and none
\* above it
C10_Witness ==
    /\ CorrAnswered
    /\ Cardinality(CorrNames) = 4
    /\ Cardinality(CorrOverlapping) = 0
    /\ \E i \in DOMAIN CorrSample : CorrSample[i] = ArticlePool[2]
    /\ corr.result.independentPhrasing

\* checkCorroboration returned a result, not null
CorrResult == corr.pc = "done" /\ corr.result # JNull

CorrTemplate == corr.result.summary.template

TemplateIndependent == "independent sources report on this topic with different phrasing"
TemplateOverlapping == "sources covering similar claims, but phrasing overlap is high"
TemplateNoMatch == "No related articles found in recent news."
TemplateNoSource == "No independent corroboration found in recent news."

\* C11 as stated: every non-null CorroborationResult carries one of exactly
\* three summaries: the independent one exactly when independentPhrasing, the
\* overlapping one exactly when articles were found but independentPhrasing is
\* false, the no-match one exactly when zero articles were returned.
C11_ThreeTemplates ==
    CorrResult =>
        /\ CorrTemplate \in {TemplateIndependent, TemplateOverlapping, TemplateNoMatch}
        /\ CorrTemplate = TemplateIndependent <=> corr.result.independentPhrasing
        /\ CorrTemplate = TemplateOverlapping
              <=> (Len(CorrArticles) > 0 /\ ~corr.result.independentPhrasing)
        /\ CorrTemplate = TemplateNoMatch <=> Len(CorrArticles) = 0

\* C11 amended: the summary is one of exactly four texts: the independent one
\* exactly when independentPhrasing; the overlapping one exactly when articles
\* were found, independentPhrasing is false and at least one sampled article
\* names its source; "No independent corroboration found in recent news."
\* exactly when articles were found and no sampled article names its source;
\* the no-match one exactly when zero articles were returned.
C11_FourTemplates ==
    CorrResult =>
        /\ CorrTemplate \in {TemplateIndependent, TemplateOverlapping,
                             TemplateNoMatch, TemplateNoSource}
        /\ CorrTemplate = TemplateIndependent <=> corr.result.independentPhrasing
        /\ CorrTemplate = TemplateOverlapping
              <=> /\ Len(CorrArticles) > 0
                  /\ ~corr.result.independentPhrasing
                  /\ CorrNames # {}
        /\ CorrTemplate = TemplateNoSource
              <=> (Len(CorrArticles) > 0 /\ CorrNames = {})
        /\ CorrTemplate = TemplateNoMatch <=> Len(CorrArticles) = 0

\* C11 witness: articles were found, none of them names its source
C11_Witness ==
    /\ CorrResult
    /\ Len(CorrArticles) > 1
    /\ CorrNames = {}
    /\ CorrTemplate = TemplateNoSource

\* C26: every non-null CorroborationResult lists at most 5 sources, counts
\* the distinct source names of the first 8 articles only (uniqueSourceCount <=
\* min(found, 8)), gives every similarity as an integer from 0 to 100, and has
\* independentPhrasing only when found >= 3.
C26_ResultBounds ==
    CorrResult =>
        /\ Len(corr.result.sources) <= 5
        /\ corr.result.uniqueSourceCount <= Min(corr.result.found, 8)
        /\ corr.result.uniqueSourceCount = Cardinality(CorrNames)
        /\ \A i \in DOMAIN corr.result.sources :
              corr.result.sources[i].similarity \in 0..100
        /\ corr.result.independentPhrasing => corr.result.found >= 3

\* C26 witness: nine articles answered, the ninth from a source of its own;
\* five are listed, the similarities reach 0 and 100
C26_Witness ==
    /\ CorrResult
    /\ corr.result.found = 9
    /\ Len(corr.result.sources) = 5
    /\ CorrArticles[9].t = "article"
    /\ CorrArticles[9].name \notin {CorrArticles[i].name : i \in 1..8}
    /\ corr.result.independentPhrasing
    /\ \E i, j \in DOMAIN corr.result.sources :
          corr.result.sources[i].similarity = 0 /\ corr.result.sources[j].similarity = 100

\* the last entry of the call's log of requests, responses and failures
CorrLast == corr.log[Len(corr.log)]

\* the service answered 2xx and the body parsed to an object
CorrSucceeded ==
    /\ Len(corr.log) = 2
    /\ CorrLast.ev = "response" /\ CorrLast.n \in 200..299
    /\ corr.data.t = "obj"

\* C12: checkCorroboration returns null whenever the key is unconfigured (and
\* then sends no request), the query is shorter than 10 characters, the answer
\* is not 2xx, or the request fails, times out or does not parse; it returns a
\* result with found = 0, sources = [], uniqueSourceCount = 0 and
\* independentPhrasing = false whenever the service answers successfully with
\* zero articles; a zero-match result is returned in no other case.
C12_NullOrZeroMatch ==
    corr.pc = "done" =>
        /\ ~corr.configured => (corr.result = JNull /\ corr.log = <<>>)
        /\ queryLength(corr.keywords) < 10 => corr.result = JNull
        /\ (corr.log # <<>> /\ CorrLast.ev \in {"network-error", "timeout"})
              => corr.result = JNull
        /\ (corr.log # <<>> /\ CorrLast.ev = "response" /\ CorrLast.n \notin 200..299)
              => corr.result = JNull
        /\ corr.data = NotJson => corr.result = JNull
        /\ (CorrSucceeded /\ Len(CorrArticles) = 0) =>
              /\ corr.result # JNull
              /\ corr.result.found = 0
              /\ corr.result.sources = <<>>
              /\ corr.result.uniqueSourceCount = 0
              /\ ~corr.result.independentPhrasing
        /\ (corr.result # JNull /\ corr.result.found = 0) =>
              (corr.configured /\ CorrSucceeded /\ Len(CorrArticles) = 0)

\* C12 witness: a 200 answer with an empty article list gives the zero-match
\* result
C12_Witness ==
    /\ corr.pc = "done"
    /\ CorrSucceeded
    /\ "articles" \in DOMAIN corr.data /\ corr.data.articles.items = <<>>
    /\ corr.result # JNull
    /\ corr.result.found = 0

----------------------------------------------------------------------------
(* Content.  A text is represented by what the analyzers' scans return on   *)
(* it: body.sentences are the pieces of body.split(/[.!?]+/), each with its *)
(* trimmed length and its number of words; the other fields of body and of  *)
(* title are the match counts of the fixed phrase and pattern tables.       *)

Piece(chars, words) == [chars |-> chars, words |-> words]

\* text.split(/[.!?]+/).filter(s => s.trim().length > minChars)
Sentences(body, minChars) ==
    LET Long(piece) == piece.chars > minChars
    IN  SelectSeq(body.sentences, Long)

WordsOf(pieces) == [i \in DOMAIN pieces |-> pieces[i].words]

\* text.split(/\s+/).length: the words of all pieces; 1 for a text without any
wordCount(body) == Max(1, SumSeq(WordsOf(body.sentences)))

----------------------------------------------------------------------------
(* Synthetic-Text analyzer *)

\* sentLengths.reduce over the first i pieces of the text: the sum of the
\* given power (0, 1 or 2) of the word counts of the sentences kept
RECURSIVE lengthSum(_, _, _)
lengthSum(pieces, power, i) ==
    IF i = 0 THEN 0
    ELSE lengthSum(pieces, power, i - 1)
            + (IF pieces[i].chars <= 5 THEN 0
               ELSE IF power = 0 THEN 1
               ELSE IF power = 1 THEN pieces[i].words
               ELSE pieces[i].words * pieces[i].words)

\* phraseDensity, transDensity, cv and ttr against their cutoffs
heuristicSyntheticSignals(body) ==
    LET n == lengthSum(body.sentences, 0, Len(body.sentences))
        total == lengthSum(body.sentences, 1, Len(body.sentences))
        squares == lengthSum(body.sentences, 2, Len(body.sentences))
        \* cv * cv = spread / (total * total)
        spread == n * squares - total * total
        phrase == IF 100 * body.llmPhrases > 15 * n THEN 3
                  ELSE IF 100 * body.llmPhrases > 5 * n THEN 1 ELSE 0
        uniform == IF 16 * spread < total * total /\ n > 5 THEN 2
                   ELSE IF 400 * spread < 49 * total * total /\ n > 5 THEN 1 ELSE 0
        ttr == IF /\ body.tokens > 100
                  /\ 100 * body.distinctTokens > 35 * body.tokens
                  /\ 100 * body.distinctTokens < 55 * body.tokens
               THEN 1 ELSE 0
        trans == IF 10 * body.transitions > 2 * n THEN 2
                 ELSE IF 10 * body.transitions > n THEN 1 ELSE 0
    IN  phrase + uniform + ttr + trans

\* heuristicSyntheticScore(text) * 9: Math.min(signals / 9, 1) in ninths
heuristicSyntheticScore(body) ==
    IF Len(Sentences(body, 5)) < 3 THEN 0
    ELSE Min(heuristicSyntheticSignals(body), 9)

syntheticLevel(score) ==
    IF score = NaN THEN "low"
    ELSE IF score >= 60 THEN "high" ELSE IF score >= 30 THEN "medium" ELSE "low"

syntheticGuardBad(content) == wordCount(content.body) < 15

syntheticGuard(content) == Len(Sentences(content.body, 5)) < 3

syntheticCanned == [level |-> "low", score |-> 10, modelUsed |-> FALSE]

\* Math.round(combined * 100)
syntheticScore(heuristicRaw, mlRaw) ==
    IF mlRaw = JNull THEN Round(100 * heuristicRaw, 9)
    ELSE IF mlRaw.t # "num" THEN NaN
    ELSE Round(630 * mlRaw.num + 30 * heuristicRaw * ProbDen, 9 * ProbDen)

\* analyzeSyntheticText after its await: mlRaw is what detectSynthetic returned
syntheticResult(content, mlRaw) ==
    CHOOSE r \in {[level |-> syntheticLevel(score), score |-> score,
                   modelUsed |-> mlRaw # JNull] :
                     score \in {syntheticScore(heuristicSyntheticScore(content.body), mlRaw)}} :
        TRUE

----------------------------------------------------------------------------
(* Sourcing analyzer *)

sourcingGuard(content) == Len(Sentences(content.body, 10)) < 2

sourcingCanned == [level |-> "medium", score |-> 50]

clampBad(score) == Max(0, Min(95, score))

\* Math.max(5, Math.min(95, score))
clamp(score) == Max(5, Min(95, score))

sourcingLevel(score) ==
    IF score >= 60 THEN "high" ELSE IF score >= 35 THEN "medium" ELSE "low"

sourcingScoreBad(namedSources, anonClaims, unattributed, links, author) ==
    clamp(50 - Min(namedSources * 8, 30) + Min(anonClaims * 5, 15)
             + Min(unattributed * 3, 20) - Min(links * 3, 10))

sourcingScore(namedSources, anonClaims, unattributed, links, author) ==
    clamp(50 - Min(namedSources * 8, 30) + Min(anonClaims * 5, 15)
             + Min(unattributed * 3, 20) - Min(links * 3, 10)
             - (IF Falsy(author) THEN 0 ELSE 5))

\* analyzeSourcing after its await: mlEntities is what analyzeEntities returned
sourcingResult(content, mlEntities) ==
    LET modelUsed == mlEntities # JNull
        namedSources == IF modelUsed
                        THEN mlEntities.person_count + mlEntities.org_count
                        ELSE content.body.attributions
        score == sourcingScore(namedSources, content.body.anonymous,
                               content.body.claims, content.body.links, content.author)
    IN  [level |-> sourcingLevel(score), score |-> score, modelUsed |-> modelUsed,
         details |-> [namedSources |-> namedSources,
                      anonymousClaims |-> content.body.anonymous,
                      externalLinks |-> content.body.links]]

----------------------------------------------------------------------------
(* Linguistic analyzer *)

linguisticGuard(content) == wordCount(content.body) < 15

linguisticCanned == [level |-> "low", score |-> 15]

riskLevelBad(score) ==
    IF score >= 55 THEN "high" ELSE IF score > 25 THEN "medium" ELSE "low"

\* the cutoffs 55 and 25 of the linguistic, temporal and structural analyzers
riskLevel(score) ==
    IF score >= 55 THEN "high" ELSE IF score >= 25 THEN "medium" ELSE "low"

sentimentRiskBad(sentiment) ==
    LET scoreMap == sentiment.scores
        negScore == IF "negative" \in DOMAIN scoreMap /\ scoreMap["negative"].t = "num"
                    THEN scoreMap["negative"].num ELSE 0
    IN  IF 10 * negScore > 7 * ProbDen THEN 3
        ELSE IF 10 * negScore > 5 * ProbDen THEN 2
        ELSE IF 10 * negScore >= 3 * ProbDen THEN 1 ELSE 0

\* sentiment.scores['negative'] || 0 against 0.7, 0.5 and 0.3
sentimentRisk(sentiment) ==
    LET scoreMap == sentiment.scores
        negScore == IF "negative" \in DOMAIN scoreMap /\ scoreMap["negative"].t = "num"
                    THEN scoreMap["negative"].num ELSE 0
    IN  IF 10 * negScore > 7 * ProbDen THEN 3
        ELSE IF 10 * negScore > 5 * ProbDen THEN 2
        ELSE IF 10 * negScore > 3 * ProbDen THEN 1 ELSE 0

\* sentences.length || 1
sentencesOrOne(body) ==
    IF Len(Sentences(body, 5)) = 0 THEN 1 ELSE Len(Sentences(body, 5))

\* emotionalIntensity against 0.5 and 0.2
emotionalRisk(body) ==
    LET emotional == body.intensifiers * 2 + body.exclamations + body.capsWords
    IN  IF 10 * emotional > 5 * sentencesOrOne(body) THEN 3
        ELSE IF 10 * emotional > 2 * sentencesOrOne(body) THEN 1 ELSE 0

\* certaintyDensity against 0.15 and 0.05
certaintyRisk(body) ==
    IF 100 * body.certainty > 15 * sentencesOrOne(body) THEN 3
    ELSE IF 100 * body.certainty > 5 * sentencesOrOne(body) THEN 1 ELSE 0

tropeRisk(body) ==
    IF body.tropes >= 3 THEN 3
    ELSE IF body.tropes >= 1 THEN body.tropes ELSE 0

\* the heuristic contributions: emotional intensity, certainty density, tropes
heuristicRisk(body) == emotionalRisk(body) + certaintyRisk(body) + tropeRisk(body)

linguisticResultBad(content, sentiment) ==
    LET modelUsed == sentiment # JNull
        totalRisk == (IF modelUsed THEN sentimentRisk(sentiment) ELSE 0)
                        + heuristicRisk(content.body)
        score == clamp(Round(totalRisk * 100, 10))
    IN  [level |-> riskLevel(score), score |-> score, modelUsed |-> modelUsed,
         details |-> [certaintyWithoutEvidence |-> content.body.certainty,
                      narrativeTropes |-> content.body.tropes,
                      sentiment |-> IF modelUsed
                                    THEN [label |-> sentiment.label,
                                          scores |-> sentiment.scores]
                                    ELSE JNull]]

\* analyzeLinguistic after its await: sentiment is what analyzeSentiment returned
linguisticResult(content, sentiment) ==
    LET modelUsed == sentiment # JNull
        totalRisk == (IF modelUsed THEN sentimentRisk(sentiment) ELSE 0)
                        + heuristicRisk(content.body)
        maxRisk == IF modelUsed THEN 12 ELSE 10
        score == clamp(Round(totalRisk * 100, maxRisk))
    IN  [level |-> riskLevel(score), score |-> score, modelUsed |-> modelUsed,
         details |-> [certaintyWithoutEvidence |-> content.body.certainty,
                      narrativeTropes |-> content.body.tropes,
                      sentiment |-> IF modelUsed
                                    THEN [label |-> sentiment.label,
                                          scores |-> sentiment.scores]
                                    ELSE JNull]]

----------------------------------------------------------------------------
(* Temporal analyzer *)

temporalGuardBad(content) == Len(Sentences(content.body, 5)) < 1

temporalGuard(content) == Len(Sentences(content.body, 5)) < 2

temporalCanned == [level |-> "medium", score |-> 50]

\* the risk of the checks made on the text before the news search is awaited
internalRisk(content) ==
    (IF content.body.urgency >= 3 THEN 3
     ELSE IF content.body.urgency >= 1 THEN 1 ELSE 0)
  + (IF Falsy(content.date) /\ ~content.body.dateInText THEN 1 ELSE 0)
  + (IF content.body.corroborationSignals = 0 THEN 2
     ELSE IF content.body.corroborationSignals >= 3 THEN 0 - 1 ELSE 0)
  + (IF content.body.sharePressure THEN 2 ELSE 0)

externalRiskBad(corroboration) ==
    IF corroboration = JNull THEN 0
    ELSE IF corroboration.found = 0 THEN 2
    ELSE IF corroboration.independentPhrasing THEN 0 - 2
    ELSE 2

\* the risk of the news search's verdict
externalRisk(corroboration) ==
    IF corroboration = JNull THEN 0
    ELSE IF corroboration.found = 0 THEN 2
    ELSE IF corroboration.independentPhrasing THEN 0 - 2
    ELSE 1

\* analyzeTemporal after its await: corroboration is what checkCorroboration
\* returned
temporalResult(content, corroboration) ==
    LET risk == Max(0, internalRisk(content) + externalRisk(corroboration))
        score == clamp(Round(risk * 100, 10))
    IN  [level |-> riskLevel(score), score |-> score, corroboration |-> corroboration]

----------------------------------------------------------------------------
(* Structural analyzer *)

structuralGuard(content) == wordCount(content.body) < 10

structuralCanned == [level |-> "medium", score |-> 50]

\* source?.includes(needle) for the sources the extractor and the route set;
\* undefined when there is no source
Includes(source, needle) ==
    CASE source = Undefined -> FALSE
      [] needle = "twitter" -> source = "twitter.com"
      [] needle = "x.com" -> source = "x.com"
      [] OTHER -> FALSE

alignmentRisk(title) ==
    IF title.chars > 5 /\ title.significant > 0
    THEN IF 10 * title.overlap < 3 * title.significant THEN 2
         ELSE IF 10 * title.overlap < 5 * title.significant THEN 1 ELSE 0
    ELSE 0

truncationSignals(content) ==
    (IF content.body.ending # "" THEN 1 ELSE 0)
  + (IF content.body.bracketEllipsis THEN 1 ELSE 0)
  + (IF /\ wordCount(content.body) < 50
        /\ ~Includes(content.source, "twitter")
        /\ ~Includes(content.source, "x.com")
     THEN 1 ELSE 0)

\* the flags of the module-level CLICKBAIT_PATTERNS: i alone
CLICKBAIT_FLAGS_G == "gi"

CLICKBAIT_FLAGS == "i"

\* pattern.test over the patterns of which `hits` occur in the text: a pattern
\* with the g flag searches from its lastIndex, past which the occurrence is
\* not found, and leaves there the end of its match or 0; a pattern without
\* it searches from 0 and leaves lastIndex alone
test(flags, lastIndex, hits) ==
    IF flags \in {"g", "gi"}
    THEN LET found == IF lastIndex > 0 THEN 0 ELSE hits
         IN  [hits |-> found, lastIndex |-> IF found > 0 THEN 1 ELSE 0]
    ELSE [hits |-> hits, lastIndex |-> lastIndex]

\* the clickbait loop over the title and the first 200 characters
clickbaitTest(content, lastIndex) ==
    test(CLICKBAIT_FLAGS, lastIndex, content.title.clickbait + content.body.ledeClickbait)

structuralRisk(content, lastIndex) ==
    LET title == content.title
        clickbaitHits == clickbaitTest(content, lastIndex).hits
    IN  alignmentRisk(title)
      + (IF clickbaitHits >= 2 THEN 3 ELSE IF clickbaitHits = 1 THEN 1 ELSE 0)
      + (IF title.sensational >= 2 THEN 2 ELSE IF title.sensational = 1 THEN 1 ELSE 0)
      + (IF title.chars > 0 /\ title.endsQuestion THEN 1 ELSE 0)
      + (IF truncationSignals(content) >= 2 THEN 2
         ELSE IF truncationSignals(content) = 1 THEN 1 ELSE 0)
      + (IF title.chars > 10 /\ title.allCaps THEN 1 ELSE 0)

\* analyzeStructural: it awaits nothing
structuralResult(content, lastIndex) ==
    IF structuralGuard(content) THEN structuralCanned
    ELSE LET score == clamp(Round(structuralRisk(content, lastIndex) * 100, 10))
         IN  [level |-> riskLevel(score), score |-> score]

\* the lastIndex of the module's patterns once analyzeStructural has returned
structuralLastIndex(content, lastIndex) ==
    IF structuralGuard(content) THEN lastIndex
    ELSE clickbaitTest(content, lastIndex).lastIndex

----------------------------------------------------------------------------
(* The Content records the analyzers are called with *)

\* the most sentences of a text
MaxSentences == 7

Title(chars, significant, overlap, clickbait, sensational, endsQuestion, allCaps) ==
    [chars |-> chars, significant |-> significant, overlap |-> overlap,
     clickbait |-> clickbait, sensational |-> sensational,
     endsQuestion |-> endsQuestion, allCaps |-> allCaps]

\* title: ''
NoTitle == Title(0, 0, 0, 0, 0, FALSE, FALSE)

\* ten significant words of which 2, 3, 4 or 5 occur in the body
Headline(overlap) == Title(80, 10, overlap, 0, 0, FALSE, FALSE)

\* '', 'Wow?', 'EPIC', the headlines, "Here's why the budget is shocking" and
\* "SHOCKING BOMBSHELL: YOU WON'T BELIEVE WHAT HAPPENS NEXT?"
Titles ==
    {NoTitle,
     Title(4, 0, 0, 0, 0, TRUE, FALSE),
     Title(4, 1, 0, 0, 1, FALSE, TRUE),
     Title(33, 3, 2, 1, 1, FALSE, FALSE),
     Title(56, 6, 0, 2, 2, TRUE, TRUE)}
        \cup {Headline(overlap) : overlap \in 2..5}

\* a text of n sentences of more than 10 characters whose word counts
\* alternate between shape[1] and shape[2]
Alternating(n, shape) == [i \in 1..n |-> Piece(60, shape[1 + (i % 2)])]

Shapes == {<<10, 10>>, <<7, 13>>, <<5, 15>>}

\* 'Yes.', 'Absolutely no. Absolutely so. Absolutely yes.' and
\* 'So it goes. So it went.'
ShortTexts ==
    {<<Piece(3, 1)>>,
     <<Piece(13, 2), Piece(13, 2), Piece(14, 2)>>,
     <<Piece(10, 3), Piece(10, 3)>>}

Texts == {Alternating(n, shape) : n \in 0..MaxSentences, shape \in Shapes} \cup ShortTexts

\* a body in which no table entry matches
PlainBody(sentences) ==
    [sentences |-> sentences,
     llmPhrases |-> 0, tokens |-> 0, distinctTokens |-> 0, transitions |-> 0,
     attributions |-> 0, anonymous |-> 0, claims |-> 0, links |-> 0,
     intensifiers |-> 0, exclamations |-> 0, capsWords |-> 0, certainty |-> 0,
     tropes |-> 0,
     urgency |-> 0, dateInText |-> FALSE, corroborationSignals |-> 0,
     sharePressure |-> FALSE,
     ledeClickbait |-> 0, ending |-> "", bracketEllipsis |-> FALSE]

\* the Content the route builds from pasted text
ManualContent(body) ==
    [title |-> NoTitle, body |-> body, meta |-> "", author |-> "", date |-> "",
     source |-> "manual-paste"]

Plain(sentences) == ManualContent(PlainBody(sentences))

\* the texts that differ in what the guards count: no sentence, one, two short
\* ones, two, and the longest
GuardTexts ==
    ShortTexts \cup {Alternating(n, <<10, 10>>) : n \in {0, 1, 2, MaxSentences}}

\* total and distinct tokens: none, a ratio of 0.5, of 0.35 and of more than 0.55
TokenCounts == {<<0, 0>>, <<120, 60>>, <<120, 42>>, <<120, 100>>}

SyntheticContents ==
    {[Plain(text) EXCEPT !.body.llmPhrases = phrases,
                         !.body.tokens = tk[1], !.body.distinctTokens = tk[2],
                         !.body.transitions = trans] :
        text \in Texts, phrases \in 0..2, tk \in TokenCounts, trans \in 0..2}

SourcingContents ==
    {[Plain(text) EXCEPT !.body.attributions = named, !.body.anonymous = anon,
                         !.body.claims = claims, !.body.links = links,
                         !.author = author] :
        text \in GuardTexts, named \in {0, 2, 3, 4}, anon \in {0, 1, 3, 4},
        claims \in {0, 1, 6, 7}, links \in {0, 1, 3, 4}, author \in {"", "Jane Doe"}}

LinguisticContents ==
    {[Plain(text) EXCEPT !.body.intensifiers = intens, !.body.exclamations = excl,
                         !.body.capsWords = caps, !.body.certainty = cert,
                         !.body.tropes = tropes] :
        text \in GuardTexts, intens \in 0..2, excl \in 0..1, caps \in 0..1,
        cert \in 0..2, tropes \in 0..4}

TemporalContents ==
    {[Plain(text) EXCEPT !.body.urgency = urgency, !.body.dateInText = inText,
                         !.body.corroborationSignals = signals,
                         !.body.sharePressure = share, !.date = date] :
        text \in GuardTexts, urgency \in {0, 1, 3}, inText \in BOOLEAN,
        signals \in {0, 1, 3}, share \in BOOLEAN, date \in {"", "2024-05-01"}}

ContentSources == {Undefined, "manual-paste", "twitter.com", "example.com"}

StructuralContents ==
    {[Plain(text) EXCEPT !.title = title, !.body.ledeClickbait = lede,
                         !.body.ending = ending, !.body.bracketEllipsis = bracket,
                         !.source = source] :
        text \in GuardTexts, title \in Titles, lede \in 0..2,
        ending \in {"", "...", "Read more"}, bracket \in BOOLEAN,
        source \in ContentSources}

----------------------------------------------------------------------------
(* What the analyzers' external calls are answered with: for the inference  *)
(* wrappers what hfInference returns (null after any failure), for the news *)
(* search the parsed body (null after any failure)                          *)

SyntheticAnswers ==
    {JNull, JStr("loading"), JArr(<<JNull>>),
     JArr(<<JArr(<<[t |-> "obj", label |-> JStr("LABEL_1")]>>)>>)}
        \cup SyntheticWellFormed

EntityRun ==
    <<Entity("Reuters", "ORG"), Entity("Smith", "PER"),
      [t |-> "obj", word |-> JStr("Jones"), entity |-> JStr("B-PER")],
      Entity("Paris", "LOC"), Entity("BBC", "ORG"), Entity("Smith", "PER")>>

NerAnswers ==
    {JNull, JStr("loading"), JArr(<<JNull>>)}
        \cup {JArr(Slice(EntityRun, n)) : n \in 0..Len(EntityRun)}

SentimentAnswer(scheme, negative) ==
    JArr(<<JArr(<<ClassObj(scheme[1], negative), ClassObj(scheme[2], 1),
                  ClassObj(scheme[3], ProbDen - 1 - negative)>>)>>)

SentimentAnswers ==
    {JNull, JStr("loading"), JArr(<<>>), JArr(<<ClassObj("negative", ProbDen)>>)}
        \cup {SentimentAnswer(<<"negative", "neutral", "positive">>, n) : n \in 1..(ProbDen - 2)}
        \cup {SentimentAnswer(<<"LABEL_0", "LABEL_1", "LABEL_2">>, ProbDen - 2)}

NewsAnswers ==
    OtherNewsData
        \cup {[t |-> "obj", articles |-> JArr(ArticleList(q, FALSE))] :
                q \in {<<>>, <<1, 2, 3>>, <<1, 2, 3, 4>>, <<5, 6, 7>>, <<1, 8>>}}

Analyzers == {"syntheticText", "sourcing", "linguistic", "temporal", "structural"}

\* the answers to the analyzer's one external call
Answers(a) ==
    CASE a = "syntheticText" -> SyntheticAnswers
      [] a = "sourcing" -> NerAnswers
      [] a = "linguistic" -> SentimentAnswers
      [] a = "temporal" -> NewsAnswers
      [] a = "structural" -> {}

\* what the awaited call hands the analyzer for an answer
awaited(a, answer) ==
    CASE a = "syntheticText" -> detectSynthetic(answer)
      [] a = "sourcing" -> analyzeEntities(answer)
      [] a = "linguistic" -> analyzeSentiment(answer)
      [] a = "temporal" -> Return(corroborationResult(BodyWords, answer))

guard(a, content) ==
    CASE a = "syntheticText" -> syntheticGuard(content)
      [] a = "sourcing" -> sourcingGuard(content)
      [] a = "linguistic" -> linguisticGuard(content)
      [] a = "temporal" -> temporalGuard(content)
      [] a = "structural" -> structuralGuard(content)

canned(a) ==
    CASE a = "syntheticText" -> syntheticCanned
      [] a = "sourcing" -> sourcingCanned
      [] a = "linguistic" -> linguisticCanned
      [] a = "temporal" -> temporalCanned
      [] a = "structural" -> structuralCanned

\* the analyzer's code after its await
resumed(a, content, value) ==
    CASE a = "syntheticText" -> syntheticResult(content, value)
      [] a = "sourcing" -> sourcingResult(content, value)
      [] a = "linguistic" -> linguisticResult(content, value)
      [] a = "temporal" -> temporalResult(content, value)

\* how the analyzer's promise settles once its call is answered: a call that
\* throws rejects it
settled(a, content, answer) ==
    LET ml == awaited(a, answer)
    IN  IF ml.kind = "throw" THEN Throw ELSE Return(resumed(a, content, ml.value))

----------------------------------------------------------------------------
(* One analyzer call at a time *)

\* lastIndex is the state of the modules' patterns, which outlives a call;
\* calls counts the calls made with this Content and these answers, and first
\* keeps what the first of them returned
SigIdle ==
    [pc |-> "idle", analyzer |-> "none", content |-> Plain(<<>>), requests |-> 0,
     answer |-> JUndef, outcome |-> Return(JUndef), lastIndex |-> 0,
     calls |-> 0, first |-> Return(JUndef)]

\* the analyzer runs up to its return or its await
Called(a, content) ==
    sig' = IF guard(a, content)
           THEN [sig EXCEPT !.pc = "done", !.analyzer = a, !.content = content,
                            !.calls = 1, !.outcome = Return(canned(a))]
           ELSE [sig EXCEPT !.pc = "await", !.analyzer = a, !.content = content,
                            !.calls = 1, !.requests = 1]

\* the awaited call is answered and the analyzer runs to its end
Resumed(a, answer) ==
    sig' = [sig EXCEPT !.pc = "done", !.answer = answer,
                       !.outcome = settled(a, sig.content, answer)]

SyntheticCall ==
    /\ sig.pc = "idle"
    /\ \E content \in SyntheticContents : Called("syntheticText", content)
    /\ UNCHANGED <<agg, hf, corr, route, fb>>

SyntheticResume ==
    /\ sig.pc = "await" /\ sig.analyzer = "syntheticText"
    /\ \E answer \in SyntheticAnswers : Resumed("syntheticText", answer)
    /\ UNCHANGED <<agg, hf, corr, route, fb>>

SourcingCall ==
    /\ sig.pc = "idle"
    /\ \E content \in SourcingContents : Called("sourcing", content)
    /\ UNCHANGED <<agg, hf, corr, route, fb>>

SourcingResume ==
    /\ sig.pc = "await" /\ sig.analyzer = "sourcing"
    /\ \E answer \in NerAnswers : Resumed("sourcing", answer)
    /\ UNCHANGED <<agg, hf, corr, route, fb>>

LinguisticCall ==
    /\ sig.pc = "idle"
    /\ \E content \in LinguisticContents : Called("linguistic", content)
    /\ UNCHANGED <<agg, hf, corr, route, fb>>

LinguisticResume ==
    /\ sig.pc = "await" /\ sig.analyzer = "linguistic"
    /\ \E answer \in SentimentAnswers : Resumed("linguistic", answer)
    /\ UNCHANGED <<agg, hf, corr, route, fb>>

TemporalCall ==
    /\ sig.pc = "idle"
    /\ \E content \in TemporalContents : Called("temporal", content)
    /\ UNCHANGED <<agg, hf, corr, route, fb>>

TemporalResume ==
    /\ sig.pc = "await" /\ sig.analyzer = "temporal"
    /\ \E answer \in NewsAnswers : Resumed("temporal", answer)
    /\ UNCHANGED <<agg, hf, corr, route, fb>>

StructuralCall ==
    /\ sig.pc = "idle"
    /\ \E content \in StructuralContents :
         sig' = [sig EXCEPT !.pc = "done", !.analyzer = "structural",
                            !.content = content, !.calls = 1,
                            !.outcome = Return(structuralResult(content, sig.lastIndex)),
                            !.lastIndex = structuralLastIndex(content, sig.lastIndex)]
    /\ UNCHANGED <<agg, hf, corr, route, fb>>

\* the analyzer is called a second time with the same Content, and its
\* awaited call is answered as the first time
AnalyzerAgain ==
    /\ sig.pc = "done" /\ sig.calls = 1
    /\ sig' = [sig EXCEPT
                 !.calls = 2,
                 !.first = sig.outcome,
                 !.outcome =
                     IF sig.analyzer = "structural"
                     THEN Return(structuralResult(sig.content, sig.lastIndex))
                     ELSE IF guard(sig.analyzer, sig.content)
                          THEN Return(canned(sig.analyzer))
                          ELSE settled(sig.analyzer, sig.content, sig.answer),
                 !.lastIndex =
                     IF sig.analyzer = "structural"
                     THEN structuralLastIndex(sig.content, sig.lastIndex)
                     ELSE sig.lastIndex]
    /\ UNCHANGED <<agg, hf, corr, route, fb>>

\* the next call finds the modules as the last one left them
AnalyzerNext ==
    /\ sig.pc = "done"
    /\ sig' = [SigIdle EXCEPT !.lastIndex = sig.lastIndex]
    /\ UNCHANGED <<agg, hf, corr, route, fb>>

----------------------------------------------------------------------------
(* POST /analyze *)

\* body.trim().length: the pieces and the mark that ends each
TrimmedLength(body) ==
    SumSeq([i \in DOMAIN body.sentences |-> body.sentences[i].chars]) + Len(body.sentences)

\* the least trimmed length of a body the route accepts
MinBodyLength == 10

PastedText(body) == [t |-> "text", body |-> body]

\* !text for the text of a request: absent, or the empty string
NoText(text) == text = JUndef \/ (text.t = "text" /\ text.body.sentences = <<>>)

\* the body of the pipeline's texts: each analyzer's table matches are either
\* few (quiet) or many (loud)
PipelineBody(text, loudSyn, loudSrc, loudLing, loudTemp, loudStruct) ==
    [PlainBody(text) EXCEPT
        !.llmPhrases = IF loudSyn THEN 2 ELSE 0,
        !.tokens = IF loudSyn THEN 120 ELSE 0,
        !.distinctTokens = IF loudSyn THEN 60 ELSE 0,
        !.transitions = IF loudSyn THEN 2 ELSE 0,
        !.attributions = IF loudSrc THEN 0 ELSE 2,
        !.anonymous = IF loudSrc THEN 3 ELSE 0,
        !.claims = IF loudSrc THEN 7 ELSE 0,
        !.intensifiers = IF loudLing THEN 2 ELSE 0,
        !.certainty = IF loudLing THEN 2 ELSE 0,
        !.tropes = IF loudLing THEN 3 ELSE 2,
        !.urgency = IF loudTemp THEN 3 ELSE 0,
        !.dateInText = ~loudTemp,
        !.corroborationSignals = IF loudTemp THEN 0 ELSE 1,
        !.sharePressure = loudTemp,
        !.ledeClickbait = IF loudStruct THEN 2 ELSE 0,
        !.ending = "...",
        !.bracketEllipsis = TRUE]

PipelineBodies ==
    {PipelineBody(text, b[1], b[2], b[3], b[4], b[5]) :
        text \in {Alternating(MaxSentences, <<5, 15>>), Alternating(1, <<10, 10>>)},
        b \in BOOLEAN \X BOOLEAN \X BOOLEAN \X BOOLEAN \X BOOLEAN}

\* req.body: url and text, each possibly missing; a text that is no string;
\* texts too short to analyze
Requests ==
    {[url |-> Undefined, text |-> text] :
        text \in {JUndef, JNum(12345), PastedText(PlainBody(<<>>)),
                  PastedText(PlainBody(<<Piece(3, 1)>>))}
                    \cup {PastedText(body) : body \in PipelineBodies}}
        \cup {[url |-> "https://example.com/story", text |-> text] :
                text \in {JUndef, PastedText(PlainBody(<<Piece(3, 1)>>))}}

\* what extractContent(url) resolves to: an article, a quiet one, a post, and
\* a Reddit post of little more than white space
ExtractedContents ==
    {[title |-> Title(56, 6, 0, 2, 2, TRUE, TRUE),
      body |-> PipelineBody(Alternating(MaxSentences, <<10, 10>>),
                            TRUE, TRUE, TRUE, TRUE, TRUE),
      meta |-> "", author |-> "", date |-> "", source |-> "example.com"],
     [title |-> Headline(5),
      body |-> PipelineBody(Alternating(MaxSentences, <<5, 15>>),
                            FALSE, FALSE, FALSE, FALSE, FALSE),
      meta |-> "", author |-> "Jane Doe", date |-> "2024-05-01",
      source |-> "example.com"],
     [title |-> Title(14, 1, 0, 0, 0, FALSE, FALSE),
      body |-> PipelineBody(Alternating(2, <<10, 10>>),
                            FALSE, TRUE, TRUE, TRUE, FALSE),
      meta |-> "", author |-> "jdoe", date |-> "", source |-> "twitter.com"],
     [title |-> NoTitle, body |-> PlainBody(<<Piece(3, 1)>>),
      meta |-> "", author |-> "jdoe", date |-> "", source |-> "reddit.com"]}

\* the answers to the analyzers' calls within a request
PipelineAnswers(a) ==
    CASE a = "syntheticText" ->
            {JNull, JArr(<<JNull>>)}
                \cup {b \in SyntheticWellFormed :
                        \E n \in {0, (2 * ProbDen) \div 5, ProbDen} :
                            b.items[1].items[1] = ClassObj("LABEL_1", n)}
      [] a = "sourcing" -> {JNull, JArr(<<JNull>>), JArr(EntityRun)}
      [] a = "linguistic" ->
            {JNull, JArr(<<>>)}
                \cup {SentimentAnswer(<<"negative", "neutral", "positive">>, n) :
                        n \in {1, ProbDen - 2}}
      [] a = "temporal" ->
            {JNull} \cup {[t |-> "obj", articles |-> JArr(ArticleList(q, FALSE))] :
                            q \in {<<>>, <<1, 2, 3>>}}

NoResponse ==
    [status |-> 0, error |-> "", signals |-> NoSignals, aggregation |-> NoAggregation]

errorResponseBad(status, message) ==
    [status |-> 200, error |-> message, signals |-> NoSignals,
     aggregation |-> NoAggregation]

\* res.status(status).json({ error })
errorResponse(status, message) ==
    [status |-> status, error |-> message, signals |-> NoSignals,
     aggregation |-> NoAggregation]

Pending == [state |-> "none", answer |-> JUndef, outcome |-> Return(JUndef)]

RouteIdle ==
    [pc |-> "idle", request |-> [url |-> Undefined, text |-> JUndef],
     content |-> Plain(<<>>), promises |-> [a \in Analyzers |-> Pending],
     requests |-> 0, aggregateCalls |-> 0, response |-> NoResponse,
     lastIndex |-> 0, extracted |-> Plain(<<>>)]

contentAfterBad(step, content) ==
    IF step = "temporal" THEN [content EXCEPT !.date = "2024-05-01"] ELSE content

\* the Content object, which the route hands to every analyzer and to
\* aggregate, as the step leaves it: the analyzers, checkCorroboration (within
\* analyzeTemporal) and aggregate only read its fields
contentAfter(step, content) == content

\* the Content once the five analyzers have been called, one after the other
contentStarted(content) ==
    contentAfter("structural",
        contentAfter("temporal",
            contentAfter("linguistic",
                contentAfter("sourcing",
                    contentAfter("syntheticText", content)))))

\* the five analyzers are called one after the other; each runs up to its
\* return or its await
started(a, content) ==
    IF a = "structural"
    THEN [Pending EXCEPT !.state = "settled",
                         !.outcome = Return(structuralResult(content, route.lastIndex))]
    ELSE IF guard(a, content)
    THEN [Pending EXCEPT !.state = "settled", !.outcome = Return(canned(a))]
    ELSE [Pending EXCEPT !.state = "await"]

Fulfilled(promise) == promise.state = "settled" /\ promise.outcome.kind = "return"

RejectedBad(promise) == FALSE

Rejected(promise) == promise.state = "settled" /\ promise.outcome.kind = "throw"

tooShortBad(content) == content.body.sentences = <<>>

\* !content.body || content.body.trim().length < 10
tooShort(content) ==
    content.body.sentences = <<>> \/ TrimmedLength(content.body) < MinBodyLength

\* the route once a Content exists: 400 for too short a body, else the fan-out
Arrived(content) ==
    IF tooShort(content)
    THEN [route EXCEPT
            !.pc = "responded", !.content = content, !.extracted = content,
            !.response = errorResponse(400, "Could not extract enough text to analyze. Try pasting the content directly.")]
    ELSE [route EXCEPT
            !.pc = "running", !.content = contentStarted(content),
            !.extracted = content,
            !.promises = [a \in Analyzers |-> started(a, content)],
            !.requests = Cardinality({a \in Analyzers : started(a, content).state = "await"}),
            !.lastIndex = structuralLastIndex(content, route.lastIndex)]

\* POST /analyze arrives
RoutePost ==
    /\ route.pc = "idle"
    /\ \E request \in Requests :
         route' =
            IF Falsy(request.url) /\ NoText(request.text)
            THEN [route EXCEPT
                    !.pc = "responded", !.request = request,
                    !.response = errorResponse(400, "Please provide a URL or text to analyze.")]
            ELSE IF ~Falsy(request.url)
            THEN [route EXCEPT !.pc = "extract", !.request = request]
            ELSE IF request.text.t # "text"
            THEN [route EXCEPT
                    !.pc = "responded", !.request = request,
                    !.response = errorResponse(500, "content.body.trim is not a function")]
            ELSE [Arrived(ManualContent(request.text.body)) EXCEPT !.request = request]
    /\ UNCHANGED <<agg, hf, corr, sig, fb>>

\* extractContent(url) throws, or resolves to a Content
RouteExtracted ==
    /\ route.pc = "extract"
    /\ \/ route' = [route EXCEPT
                      !.pc = "responded",
                      !.response = errorResponse(500, "Could not extract meaningful text from this URL. Try pasting the content directly.")]
       \/ \E content \in ExtractedContents : route' = Arrived(content)
    /\ UNCHANGED <<agg, hf, corr, sig, fb>>

\* the awaited call of one analyzer is answered and the analyzer runs to its end
RouteAnalyzerSettles ==
    /\ route.pc \in {"running", "responded"}
    /\ \E a \in Analyzers :
         /\ route.promises[a].state = "await"
         /\ \E answer \in PipelineAnswers(a) :
              route' = [route EXCEPT
                          !.promises[a] = [state |-> "settled", answer |-> answer,
                                           outcome |-> settled(a, route.content, answer)],
                          !.content = contentAfter(a, route.content)]
    /\ UNCHANGED <<agg, hf, corr, sig, fb>>

\* the array handed to Promise.all, in the order of the calls
AnalyzerCalls == <<"syntheticText", "sourcing", "linguistic", "temporal", "structural">>

resultIndexBad(a) ==
    CASE a = "sourcing" -> 3
      [] a = "linguistic" -> 2
      [] OTHER -> CHOOSE i \in DOMAIN AnalyzerCalls : AnalyzerCalls[i] = a

\* the place of each name in the destructuring of Promise.all's result
resultIndex(a) == CHOOSE i \in DOMAIN AnalyzerCalls : AnalyzerCalls[i] = a

\* the request of an outstanding call runs into its timeout: the client
\* returns null and the analyzer runs to its end
RouteCallTimesOut ==
    /\ route.pc \in {"running", "responded"}
    /\ \E a \in Analyzers :
         /\ route.promises[a].state = "await"
         /\ route' = [route EXCEPT
                        !.promises[a] = [state |-> "settled", answer |-> JNull,
                                         outcome |-> settled(a, route.content, JNull)],
                        !.content = contentAfter(a, route.content)]
    /\ UNCHANGED <<agg, hf, corr, sig, fb>>

\* Promise.all resolves: aggregate(signals, content), then res.json
RouteJoin ==
    /\ route.pc = "running"
    /\ \A a \in Analyzers : Fulfilled(route.promises[a])
    /\ LET results == [i \in DOMAIN AnalyzerCalls |->
                          route.promises[AnalyzerCalls[i]].outcome.value]
           signals == [a \in Analyzers |-> results[resultIndex(a)]]
       IN  route' = [route EXCEPT
                       !.pc = "responded",
                       !.aggregateCalls = @ + 1,
                       !.content = contentAfter("aggregate", route.content),
                       !.response = [status |-> 200, error |-> "",
                                     signals |-> signals,
                                     aggregation |-> aggregate(signals, route.content)]]
    /\ UNCHANGED <<agg, hf, corr, sig, fb>>

\* Promise.all rejects with the first rejection: catch, 500
RouteReject ==
    /\ route.pc = "running"
    /\ \E a \in Analyzers : Rejected(route.promises[a])
    /\ route' = [route EXCEPT
                   !.pc = "responded",
                   !.response = errorResponse(500, "Cannot read properties of null")]
    /\ UNCHANGED <<agg, hf, corr, sig, fb>>

\* the request is over once it is answered and no call is outstanding
RouteNext ==
    /\ route.pc = "responded"
    /\ \A a \in Analyzers : route.promises[a].state # "await"
    /\ route' = [RouteIdle EXCEPT !.lastIndex = route.lastIndex]
    /\ UNCHANGED <<agg, hf, corr, sig, fb>>

----------------------------------------------------------------------------
(* Properties of the analyzers *)

\* an analyzer call has returned a SignalResult
Returned == sig.pc = "done" /\ sig.outcome.kind = "return"

\* what the awaited call handed the analyzer
Handed == awaited(sig.analyzer, sig.answer)

\* C1 as stated: every SignalResult returned by any of the five analyzers, for
\* any Content and any outcome of the inference or corroboration call, has an
\* integer score with 5 <= score <= 95.
C1_ScoreRange ==
    Returned => sig.outcome.value.score \in 5..95

\* C1 amended: the score of every SignalResult of analyzeSourcing,
\* analyzeLinguistic, analyzeTemporal and analyzeStructural is an integer with
\* 5 <= score <= 95; analyzeSyntheticText does not clamp: its canned result has
\* score 10, and when detectSynthetic returned null or a probability in [0,1]
\* its score is an integer with 0 <= score <= 100.
C1_ScoreRangeByAnalyzer ==
    Returned =>
        IF sig.analyzer # "syntheticText" THEN sig.outcome.value.score \in 5..95
        ELSE IF sig.requests = 0 THEN sig.outcome.value.score = 10
        ELSE Handed.value.t \in {"null", "num"} => sig.outcome.value.score \in 0..100

\* C1 witness: analyzeSyntheticText returns a score above 95 for probability 1
C1_Witness ==
    /\ Returned
    /\ sig.analyzer = "syntheticText"
    /\ Handed.value = JNum(ProbDen)
    /\ sig.outcome.value.score > 95

\* the words of the body the analyzer was called with
SigWords ==
    LET pieces == sig.content.body.sentences
    IN  IF pieces = <<>> THEN 1
        ELSE Max(1, SumSeq([i \in DOMAIN pieces |-> pieces[i].words]))

\* its sentences of a trimmed length above minChars
SigSentences(minChars) ==
    Cardinality({i \in DOMAIN sig.content.body.sentences :
                    sig.content.body.sentences[i].chars > minChars})

\* C13 as stated: for every Content whose body has fewer than 15 words,
\* analyzeSyntheticText returns exactly its canned result (low, 10) and
\* analyzeLinguistic exactly its canned result (low, 15), however the body is
\* punctuated and whatever the model would answer.
C13_ShortBodyCanned ==
    (sig.pc = "done" /\ SigWords < 15) =>
        /\ sig.analyzer = "syntheticText" =>
              sig.outcome = Return([level |-> "low", score |-> 10, modelUsed |-> FALSE])
        /\ sig.analyzer = "linguistic" =>
              sig.outcome = Return([level |-> "low", score |-> 15])

\* C13 amended: analyzeLinguistic returns exactly its canned result (low, 15)
\* for every body of fewer than 15 words; analyzeSyntheticText returns exactly
\* its canned result (low, 10, modelUsed false) for every body with fewer than
\* 3 sentences of trimmed length > 5, whatever its word count, and neither
\* makes an external call then.
C13_GuardOfEachAnalyzer ==
    sig.pc = "done" =>
        /\ (sig.analyzer = "syntheticText" /\ SigSentences(5) < 3) =>
              /\ sig.outcome = Return([level |-> "low", score |-> 10, modelUsed |-> FALSE])
              /\ sig.requests = 0
        /\ (sig.analyzer = "linguistic" /\ SigWords < 15) =>
              /\ sig.outcome = Return([level |-> "low", score |-> 15])
              /\ sig.requests = 0

\* C13 witness: a body of 6 words in 3 sentences is scored with the model's
\* answer by analyzeSyntheticText
C13_Witness ==
    /\ Returned
    /\ sig.analyzer = "syntheticText"
    /\ SigWords = 6 /\ SigSentences(5) = 3
    /\ sig.outcome.value.modelUsed
    /\ sig.outcome.value.score = 70

\* the level the cutoffs high and medium assign to a score
LevelAt(score, high, medium) ==
    IF score >= high THEN "high" ELSE IF score >= medium THEN "medium" ELSE "low"

\* C14: in every SignalResult, the canned ones included, level is the function
\* of score given by the analyzer's cutoffs (Synthetic-Text 60 / 30, Sourcing
\* 60 / 35, Linguistic, Temporal and Structural 55 / 25, else low), which is
\* non-decreasing in score.
C14_LevelFromScore ==
    Returned =>
        sig.outcome.value.level =
            CASE sig.analyzer = "syntheticText" -> LevelAt(sig.outcome.value.score, 60, 30)
              [] sig.analyzer = "sourcing" -> LevelAt(sig.outcome.value.score, 60, 35)
              [] OTHER -> LevelAt(sig.outcome.value.score, 55, 25)

\* C14 witness: a Linguistic score on the medium cutoff
C14_Witness ==
    /\ Returned
    /\ sig.analyzer = "linguistic"
    /\ sig.requests = 1
    /\ sig.outcome.value.score = 25
    /\ sig.outcome.value.level = "medium"

SigNamed ==
    LET ner == analyzeEntities(sig.answer).value
    IN  IF ner # JNull THEN ner.person_count + ner.org_count
        ELSE sig.content.body.attributions

\* C16: when its guard does not fire, the Sourcing score is
\* clamp(50 - min(named*8, 30) + min(anon*5, 15) + min(unattributed*3, 20)
\*       - min(links*3, 10) - (5 if the author is non-empty), 5, 95),
\* with named the NER persons plus organisations when NER returned a result and
\* the regex count otherwise; an authored text with two named sources and
\* nothing else scores 29, low.
C16_SourcingFormula ==
    (Returned /\ sig.analyzer = "sourcing" /\ ~sourcingGuard(sig.content)) =>
        LET body == sig.content.body
            authored == sig.content.author \notin {Undefined, Null, ""}
            sum == 50 - Min(SigNamed * 8, 30) + Min(body.anonymous * 5, 15)
                      + Min(body.claims * 3, 20) - Min(body.links * 3, 10)
                      - (IF authored THEN 5 ELSE 0)
        IN  /\ sig.outcome.value.score = Max(5, Min(95, sum))
            /\ sig.outcome.value.details.namedSources = SigNamed
            /\ sig.outcome.value.modelUsed = (analyzeEntities(sig.answer).value # JNull)
            /\ ( /\ authored /\ SigNamed = 2 /\ body.anonymous = 0
                 /\ body.claims = 0 /\ body.links = 0 ) =>
                   /\ sig.outcome.value.score = 29
                   /\ sig.outcome.value.level = "low"

\* C16 witness: the example, with the two names found by NER
C16_Witness ==
    /\ Returned /\ sig.analyzer = "sourcing" /\ ~sourcingGuard(sig.content)
    /\ sig.outcome.value.modelUsed
    /\ sig.content.author \notin {Undefined, Null, ""}
    /\ SigNamed = 2
    /\ sig.content.body.anonymous = 0 /\ sig.content.body.claims = 0
    /\ sig.content.body.links = 0
    /\ sig.outcome.value.score = 29

\* analyzeTemporal has returned past its guard
TemporalScored ==
    Returned /\ sig.analyzer = "temporal" /\ ~temporalGuard(sig.content)

\* C18: on a Content past the Temporal guard, the risk sum with a verdict is
\* the sum with corroboration = null plus 2 when the verdict found nothing,
\* minus 2 when it has independent phrasing, plus 1 when articles were found
\* without it; the score is clamp(round(max(0, sum) / 10 * 100), 5, 95).
C18_CorroborationBlend ==
    TemporalScored =>
        LET verdict == sig.outcome.value.corroboration
            nullSum == internalRisk(sig.content)
            delta == IF verdict = JNull THEN 0
                     ELSE IF verdict.found = 0 THEN 2
                     ELSE IF verdict.independentPhrasing THEN 0 - 2
                     ELSE 1
        IN  /\ verdict = awaited("temporal", sig.answer).value
            /\ sig.outcome.value.score = Max(5, Min(95, Max(0, nullSum + delta) * 10))
            /\ temporalResult(sig.content, JNull).score = Max(5, Min(95, Max(0, nullSum) * 10))

\* C18 witness: independent phrasing takes 2 off a sum of 5
C18_Witness ==
    /\ TemporalScored
    /\ sig.outcome.value.corroboration # JNull
    /\ sig.outcome.value.corroboration.independentPhrasing
    /\ internalRisk(sig.content) = 5
    /\ sig.outcome.value.score = 30

\* the minimum-length guard of the analyzer that was called, on its Content
GuardFires ==
    CASE sig.analyzer = "syntheticText" -> SigSentences(5) < 3
      [] sig.analyzer = "sourcing" -> SigSentences(10) < 2
      [] sig.analyzer = "linguistic" -> SigWords < 15
      [] sig.analyzer = "temporal" -> SigSentences(5) < 2
      [] sig.analyzer = "structural" -> SigWords < 10
      [] OTHER -> FALSE

\* C19: each analyzer evaluates its minimum-length guard before any external
\* call: when the guard fires it returns its fixed canned result and the call
\* issues no request to the inference or the news service.
C19_GuardBeforeCalls ==
    /\ (sig.pc = "await") => ~GuardFires
    /\ (sig.pc = "done" /\ GuardFires) =>
          /\ sig.requests = 0
          /\ sig.outcome =
                CASE sig.analyzer = "syntheticText" ->
                         Return([level |-> "low", score |-> 10, modelUsed |-> FALSE])
                  [] sig.analyzer = "linguistic" -> Return([level |-> "low", score |-> 15])
                  [] OTHER -> Return([level |-> "medium", score |-> 50])

\* C19 witness: analyzeTemporal on a single sentence of ten words
C19_Witness ==
    /\ sig.pc = "done" /\ sig.analyzer = "temporal"
    /\ SigSentences(5) = 1
    /\ SigWords >= 10
    /\ sig.requests = 0
    /\ sig.outcome = Return([level |-> "medium", score |-> 50])

\* analyzeSyntheticText has returned past its guard
SyntheticScored ==
    Returned /\ sig.analyzer = "syntheticText" /\ ~syntheticGuard(sig.content)

\* C20: past its guard, analyzeSyntheticText sets modelUsed exactly when
\* detectSynthetic returned a non-null probability m, and returns
\* round((0.7 m + 0.3 h) * 100) when modelUsed and round(h * 100) otherwise,
\* with h the heuristic points over 9, capped at 1; level is high from 60,
\* medium from 30, else low.
C20_SyntheticBlend ==
    SyntheticScored =>
        LET m == detectSynthetic(sig.answer).value
            points == Min(heuristicSyntheticSignals(sig.content.body), 9)
            result == sig.outcome.value
        IN  /\ result.modelUsed = (m.t = "num")
            /\ result.score =
                  IF result.modelUsed
                  THEN Round(7 * 9 * 10 * m.num + 3 * points * 10 * ProbDen, 9 * ProbDen)
                  ELSE Round(points * 100, 9)
            /\ result.level = LevelAt(result.score, 60, 30)

\* analyzeLinguistic has returned past its guard
LinguisticScored ==
    Returned /\ sig.analyzer = "linguistic" /\ ~linguisticGuard(sig.content)

\* what analyzeSentiment had returned to the call
SigSentiment == analyzeSentiment(sig.answer).value

\* C21: past its guard, analyzeLinguistic returns
\* clamp(round(totalRisk / maxRisk * 100), 5, 95) with maxRisk 12 when the
\* sentiment call returned a result and 10 otherwise; totalRisk is the sum of
\* the sentiment contribution (0..3, 0 without the model), the emotional
\* contribution (0, 1 or 3), the certainty contribution (0, 1 or 3) and
\* min(tropeHits, 3), and never exceeds maxRisk.
C21_LinguisticFormula ==
    LinguisticScored =>
        LET body == sig.content.body
            modelUsed == SigSentiment # JNull
            maxRisk == IF modelUsed THEN 12 ELSE 10
            fromModel == IF modelUsed THEN sentimentRisk(SigSentiment) ELSE 0
            totalRisk == fromModel + emotionalRisk(body) + certaintyRisk(body)
                            + Min(body.tropes, 3)
            rounded == (2 * totalRisk * 100 + maxRisk) \div (2 * maxRisk)
        IN  /\ sig.outcome.value.modelUsed = modelUsed
            /\ fromModel \in 0..3
            /\ emotionalRisk(body) \in {0, 1, 3}
            /\ certaintyRisk(body) \in {0, 1, 3}
            /\ totalRisk <= maxRisk
            /\ sig.outcome.value.score = Max(5, Min(95, rounded))

\* C21 witness: every contribution at its most, with the model
C21_Witness ==
    /\ LinguisticScored
    /\ sig.outcome.value.modelUsed
    /\ sentimentRisk(SigSentiment) = 3
    /\ heuristicRisk(sig.content.body) = 9
    /\ sig.outcome.value.score = 95

\* low < medium < high
LevelRank(level) ==
    CASE level = "low" -> 0 [] level = "medium" -> 1 [] level = "high" -> 2

\* the sentiment model answered with a negative-class probability of at most 0.3
CalmSentiment ==
    /\ LinguisticScored
    /\ SigSentiment # JNull
    /\ "negative" \in DOMAIN SigSentiment.scores
    /\ SigSentiment.scores["negative"].t = "num"
    /\ 10 * SigSentiment.scores["negative"].num <= 3 * ProbDen

\* C30: with the heuristic contributions fixed, the Linguistic score returned
\* when the sentiment model reports a negative-class probability of at most
\* 0.3 is never greater than the score returned without the model, and the
\* level never higher: the same totalRisk is divided by 12 instead of 10.
\* Heuristic risk 6 scores 60, high, without the model and 50, medium, with it.
C30_ModelNeverRaises ==
    /\ CalmSentiment =>
          LET h == heuristicRisk(sig.content.body)
              without == Max(5, Min(95, h * 10))
              with == Max(5, Min(95, (2 * h * 100 + 12) \div (2 * 12)))
          IN  /\ sig.outcome.value.score = with
              /\ with <= without
              /\ LevelRank(sig.outcome.value.level) <= LevelRank(LevelAt(without, 55, 25))
              /\ h = 6 => (sig.outcome.value.score = 50 /\ sig.outcome.value.level = "medium")
    /\ (LinguisticScored /\ SigSentiment = JNull) =>
          /\ sig.outcome.value.score = Max(5, Min(95, heuristicRisk(sig.content.body) * 10))
          /\ heuristicRisk(sig.content.body) = 6 =>
                (sig.outcome.value.score = 60 /\ sig.outcome.value.level = "high")

\* C30 witness: heuristic risk 6 under a model that reports 0.3 negative
C30_Witness ==
    /\ CalmSentiment
    /\ 10 * SigSentiment.scores["negative"].num = 3 * ProbDen
    /\ heuristicRisk(sig.content.body) = 6
    /\ sig.outcome.value.score = 50
    /\ sig.outcome.value.level = "medium"

\* the answers that are a result of the service, as its interface documents it
WellFormed(a) ==
    CASE a = "syntheticText" -> SyntheticWellFormed
      [] a = "sourcing" -> {JArr(Slice(EntityRun, n)) : n \in 0..Len(EntityRun)}
      [] a = "linguistic" -> {b \in SentimentAnswers : b.t = "arr" /\ Len(b.items) = 1
                                                        /\ b.items[1].t = "arr"}
      [] a = "temporal" -> {b \in NewsAnswers :
                                /\ b.t = "obj" /\ "articles" \in DOMAIN b
                                /\ \A i \in DOMAIN b.articles.items :
                                      b.articles.items[i] # JNull}
      [] OTHER -> {}

\* the analyzer's external call was made and failed
CallFailed ==
    /\ sig.pc = "done"
    /\ sig.requests = 1
    /\ sig.answer \notin WellFormed(sig.analyzer)

\* the result was computed without the model or the news verdict
HeuristicOnly(a, result) ==
    IF a = "temporal" THEN result.corroboration = JNull
    ELSE result.modelUsed = FALSE

\* C4: whenever the external call of analyzeSyntheticText, analyzeSourcing,
\* analyzeLinguistic or analyzeTemporal fails (timeout, network error, non-2xx
\* status, unconfigured service, malformed or unrecognized body), the analyzer
\* still resolves to a SignalResult of its heuristic-only path (modelUsed =
\* false, corroboration = null for Temporal) and does not reject.
C4_FailureIsolation ==
    CallFailed =>
        /\ sig.outcome.kind = "return"
        /\ HeuristicOnly(sig.analyzer, sig.outcome.value)

----------------------------------------------------------------------------
(* Properties of POST /analyze *)

Promise(a) == route.promises[a]

Answered == route.pc = "responded"

\* C5: in every interleaving of the five analyzers of one request, aggregate
\* is invoked at most once and only after all five analyzers have completed
\* with a SignalResult; if any analyzer rejects, aggregate is not invoked for
\* the request, which ends with an error response and no aggregation.
C5_AllOrNothing ==
    /\ route.aggregateCalls <= 1
    /\ route.aggregateCalls = 1 => \A a \in Analyzers : Fulfilled(Promise(a))
    /\ (Answered /\ route.response.status = 200) => route.aggregateCalls = 1
    /\ (\E a \in Analyzers : Rejected(Promise(a))) =>
            /\ route.aggregateCalls = 0
            /\ Answered => /\ route.response.status >= 400
                           /\ route.response.aggregation = NoAggregation

\* C5 witness: one analyzer has rejected after another completed, a third is
\* still waiting, and the request was answered with an error
C5_Witness ==
    /\ Answered
    /\ route.response.status = 500
    /\ Rejected(Promise("linguistic"))
    /\ Fulfilled(Promise("syntheticText")) /\ Promise("syntheticText").answer # JUndef
    /\ Promise("temporal").state = "await"
    /\ route.aggregateCalls = 0

ResponseLevels == {route.response.signals[a].level : a \in Analyzers}

\* C7: whenever the five SignalResults the analyzers produced are all low,
\* aggregate returns confidenceBand = low and disagreements = [], and the mean
\* of the five scores is below 35.
C7_AllLow ==
    (Answered /\ route.response.status = 200 /\ ResponseLevels = {"low"}) =>
        /\ route.response.aggregation.confidenceBand = "low"
        /\ route.response.aggregation.disagreements = <<>>
        /\ ~avgScoreAtLeast(route.response.signals, 35)

\* C7 witness: five low signals, none a canned one, each with the largest
\* score its analyzer gives a low signal
C7_Witness ==
    /\ Answered /\ route.response.status = 200
    /\ route.requests = 4
    /\ scores(route.response.signals) = <<28, 34, 20, 20, 20>>
    /\ ResponseLevels = {"low"}
    /\ route.response.aggregation.confidenceBand = "low"

Alone(a) ==
    IF a = "structural" THEN Return(structuralResult(route.extracted, 0))
    ELSE IF guard(a, route.extracted) THEN Return(canned(a))
    ELSE settled(a, route.extracted, Promise(a).answer)

\* C23: for fixed Content and fixed external answers, the signals and the
\* aggregation of the response are the same for every order in which the
\* analyzers' calls complete: each signal is what its analyzer returns on its
\* own, stored under its own key, and a sibling still waiting changes nothing
\* but the time of the join.
C23_OrderIndependent ==
    /\ \A a \in Analyzers :
          (route.pc \in {"running", "responded"} /\ Promise(a).state = "settled") =>
              Promise(a).outcome = Alone(a)
    /\ (route.pc = "running" /\ \E a \in Analyzers : Promise(a).state = "await") =>
          route.response = NoResponse \/ route.response.status = 500
    /\ (Answered /\ route.response.status = 200) =>
          /\ \A a \in Analyzers : Return(route.response.signals[a]) = Alone(a)
          /\ route.response.aggregation = aggregate(route.response.signals, route.extracted)

\* C23 witness: a joined run of four answered calls whose Sourcing and
\* Linguistic signals differ
C23_Witness ==
    /\ Answered /\ route.response.status = 200
    /\ route.requests = 4
    /\ \A a \in Analyzers \ {"structural"} : Promise(a).answer # JUndef
    /\ route.response.signals["sourcing"].level # route.response.signals["linguistic"].level
    /\ route.response.signals["temporal"].level = "high"

\* the request was answered with the five signals and their aggregation
Joined == Answered /\ route.response.status = 200

JoinedBand == route.response.aggregation.confidenceBand

JoinedLevels == {route.response.signals[a].level : a \in Analyzers}

\* the summary of a band high names a high signal, that of a band medium a
\* signal that is not low
SummaryFilled ==
    /\ JoinedBand = "high" =>
          /\ "high" \in JoinedLevels
          /\ route.response.aggregation.summary.fill # <<>>
    /\ JoinedBand = "medium" =>
          /\ JoinedLevels # {"low"}
          /\ route.response.aggregation.summary.fill # <<>>

\* C27 as stated: for the five signals the analyzers returned, a band high
\* comes with a signal of level high and a band medium with a signal that is
\* not low, and the mean-score rules never raise the band: the band is the
\* one the counts of the levels give.
C27_MeanNeverRaises ==
    Joined =>
        /\ SummaryFilled
        /\ JoinedBand = countBand(route.response.signals)

\* C27 amended: for the five signals the analyzers returned, a band high
\* comes with a signal of level high and a band medium with a signal that is
\* not low, so the filled-in part of the summary is never empty, also when
\* it is the mean score that raised the band above the one the counts give.
C27_SummaryFilled == Joined => SummaryFilled

\* C27 witness: two signals high and three medium, the mean is 66.4: the
\* counts give medium, the mean gives high
C27_Witness ==
    /\ Joined
    /\ JoinedBand = "high"
    /\ countBand(route.response.signals) = "medium"
    /\ Len(route.response.aggregation.summary.fill) = 2

\* the SignalResults whose level and score are at least those of signal
AtLeast(signal) ==
    {s \in AnySignal :
        /\ LevelRank(s.level) >= LevelRank(signal.level)
        /\ s.score >= signal.score}

\* C28: confidenceBand is monotone in the signals: raising the level and the
\* score of any one signal of the set aggregate was called with never lowers
\* the band, and a set that is at least as high in every signal is reached by
\* raising one signal at a time; a non-empty list of disagreements comes with
\* a band that is not low.  The band does not read the Content, so the calls
\* for one source are compared.
C28_BandMonotone ==
    agg.pc = "returned" =>
        /\ agg.source = "example.com" =>
              \A k \in AggKeys : \A s \in AtLeast(agg.signals[k]) :
                  LevelRank(confidenceBand([agg.signals EXCEPT ![k] = s]))
                      >= LevelRank(agg.result.confidenceBand)
        /\ agg.result.disagreements # <<>> => agg.result.confidenceBand # "low"

\* C28 witness: three signals medium, none high; there are sets above it
\* whose count of medium signals is smaller
C28_Witness ==
    /\ agg.pc = "returned"
    /\ AggCount("medium") = 3 /\ AggCount("high") = 0
    /\ AggTotal < 175
    /\ agg.result.confidenceBand = "medium"
    /\ agg.source = "example.com"
    /\ \E k \in AggKeys :
          /\ agg.signals[k].level = "medium"
          /\ "high" \in {s.level : s \in AtLeast(agg.signals[k])}

\* an analyzer or aggregate was called for the request
Invoked ==
    \/ \E a \in Analyzers : Promise(a) # Pending
    \/ route.requests > 0
    \/ route.aggregateCalls > 0

ExtractionFailed ==
    /\ Answered /\ ~Falsy(route.request.url)
    /\ route.extracted = RouteIdle.extracted

\* C25: the route calls the analyzers only for a Content whose body has a
\* trimmed length of 10 or more; a request with neither url nor text, and one
\* whose body is missing or shorter, is answered 400 with no analyzer or
\* aggregate call; a failed extraction is answered with an error and no
\* analyzer call.
C25_AnalyzersNeedBody ==
    /\ Invoked =>
          /\ route.extracted.body.sentences # <<>>
          /\ TrimmedLength(route.extracted.body) >= 10
    /\ (Answered /\ Falsy(route.request.url) /\ NoText(route.request.text)) =>
          route.response.status = 400 /\ ~Invoked
    /\ (Answered /\ route.request.text.t = "text" /\ Falsy(route.request.url)
            /\ (\/ route.request.text.body.sentences = <<>>
                \/ TrimmedLength(route.request.text.body) < 10)) =>
          route.response.status = 400 /\ ~Invoked
    /\ (Answered /\ ~Falsy(route.request.url) /\ route.extracted # RouteIdle.extracted
            /\ (\/ route.extracted.body.sentences = <<>>
                \/ TrimmedLength(route.extracted.body) < 10)) =>
          route.response.status = 400 /\ ~Invoked
    /\ ExtractionFailed =>
          /\ route.response.status >= 400 /\ route.response.error # ""
          /\ ~Invoked

\* C25 witness: a pasted text of three characters, answered 400
C25_Witness ==
    /\ Answered /\ route.response.status = 400
    /\ route.request.text.t = "text"
    /\ route.request.text.body.sentences # <<>>
    /\ TrimmedLength(route.request.text.body) < 10
    /\ ~Invoked

\* the requests checkCorroboration has sent
NewsRequests == Cardinality({i \in DOMAIN corr.log : corr.log[i] = Request})

\* C24: if every HTTP request ends (with a response, an error or its timeout),
\* every inference call completes after at most two requests, every
\* checkCorroboration call after at most one, and every /analyze request
\* eventually sends exactly one response (200, 400 or 500), whatever the
\* remote services answer.
C24_Terminates ==
    /\ [](HfRequests <= 2 /\ NewsRequests <= 1)
    /\ (hf.pc # "idle") ~> (hf.pc = "done")
    /\ (corr.pc # "idle") ~> (corr.pc = "done")
    /\ (route.pc # "idle") ~> Answered
    /\ [](Answered => route.response.status \in {200, 400, 500})
    /\ [](~Answered => route.response = NoResponse)
    /\ [][route.pc = "responded" =>
             (route'.response = route.response \/ route'.pc = "idle")]_vars

\* C24 witness: the request was answered 500 on the first rejection while two
\* other calls were still outstanding
C24_Witness ==
    /\ Answered
    /\ route.response.status = 500
    /\ Rejected(Promise("sourcing"))
    /\ Promise("syntheticText").state = "await"
    /\ Promise("linguistic").state = "await"

----------------------------------------------------------------------------
(* POST /feedback *)

\* the POST /feedback requests of one process
MaxFeedback == 2

FeedbackIds == 1..MaxFeedback

\* req.body: helpful a boolean or absent, reportInaccurate set or not
Payloads == [helpful : {"true", "false", Undefined}, reportInaccurate : BOOLEAN]

\* typeof helpful !== 'boolean' && !reportInaccurate is the 400
accepted(payload) == payload.helpful \in {"true", "false"} \/ payload.reportInaccurate

\* the record of request r: helpful ?? null and !!reportInaccurate
record(r, payload) ==
    [id |-> r,
     helpful |-> IF payload.helpful = Undefined THEN Null ELSE payload.helpful,
     report_inaccurate |-> payload.reportInaccurate]

NoFeedback ==
    [pc |-> "none", payload |-> [helpful |-> Undefined, reportInaccurate |-> FALSE],
     status |-> 0, stored |-> "none"]

\* the module's state: supabase and supabaseInitAttempted, the environment
\* (both variables set, the import and createClient succeed), the rows of the
\* feedback table and the lines of feedback.jsonl
FbIdle ==
    [pc |-> "down", configured |-> FALSE, importable |-> FALSE,
     supabase |-> Null, supabaseInitAttempted |-> FALSE, created |-> 0,
     requests |-> [r \in FeedbackIds |-> NoFeedback],
     rows |-> {}, file |-> <<>>]

\* the process starts in its environment
FbStart ==
    /\ fb.pc = "down"
    /\ \E configured, importable \in BOOLEAN :
         fb' = [fb EXCEPT !.pc = "up", !.configured = configured,
                          !.importable = importable]
    /\ UNCHANGED <<agg, hf, corr, sig, route>>

\* the handler after await getSupabase() gave db: the insert is sent, or the
\* record is appended to the file and the request answered
written(f, r, db) ==
    IF db # Null
    THEN [f EXCEPT !.requests[r].pc = "insert"]
    ELSE [f EXCEPT !.requests[r].pc = "done", !.requests[r].status = 200,
                   !.requests[r].stored = "file",
                   !.file = Append(@, record(r, f.requests[r].payload))]

\* POST /feedback arrives: 400, or the record is built and getSupabase called,
\* which returns at once or waits for the import
FbPost ==
    /\ fb.pc = "up"
    /\ \E r \in FeedbackIds, payload \in Payloads :
         /\ fb.requests[r].pc = "none"
         /\ \A q \in FeedbackIds : q < r => fb.requests[q].pc # "none"
         /\ LET f == [fb EXCEPT !.requests[r].payload = payload]
            IN  fb' =
                  IF ~accepted(payload)
                  THEN [f EXCEPT !.requests[r].pc = "done", !.requests[r].status = 400]
                  ELSE IF f.supabaseInitAttempted
                  THEN written(f, r, f.supabase)
                  ELSE IF ~f.configured
                  THEN written([f EXCEPT !.supabaseInitAttempted = TRUE], r, Null)
                  ELSE [f EXCEPT !.supabaseInitAttempted = TRUE,
                                 !.requests[r].pc = "import"]
    /\ UNCHANGED <<agg, hf, corr, sig, route>>

\* the import resolves and createClient returns, or one of them throws and
\* the catch block leaves supabase as it is; getSupabase returns supabase
FbImported ==
    /\ \E r \in FeedbackIds :
         /\ fb.requests[r].pc = "import"
         /\ fb' = IF fb.importable
                  THEN written([fb EXCEPT !.supabase = "client", !.created = @ + 1],
                               r, "client")
                  ELSE written(fb, r, fb.supabase)
    /\ UNCHANGED <<agg, hf, corr, sig, route>>

\* the insert is answered: the row is stored, or error is set and the catch
\* block answers all the same
FbInserted ==
    /\ \E r \in FeedbackIds :
         /\ fb.requests[r].pc = "insert"
         /\ \/ fb' = [fb EXCEPT !.requests[r].pc = "done", !.requests[r].status = 200,
                                 !.requests[r].stored = "supabase",
                                 !.rows = @ \cup {record(r, fb.requests[r].payload)}]
            \/ fb' = [fb EXCEPT !.requests[r].pc = "done", !.requests[r].status = 200,
                                 !.requests[r].stored = "lost"]
    /\ UNCHANGED <<agg, hf, corr, sig, route>>

----------------------------------------------------------------------------
(* Properties of POST /feedback *)

\* C29: when Supabase is configured and its client can be created, every
\* accepted feedback record is written to Supabase and none to the local
\* file, also for requests that arrive while the first request's getSupabase
\* is still waiting for the import, and the client is created at most once.
C29_AllToSupabase ==
    (fb.configured /\ fb.importable) =>
        /\ fb.file = <<>>
        /\ fb.created <= 1
        /\ \A r \in FeedbackIds :
              (fb.requests[r].pc = "done" /\ fb.requests[r].status = 200
                    /\ fb.requests[r].stored # "lost") =>
                  record(r, fb.requests[r].payload) \in fb.rows

----------------------------------------------------------------------------

Init ==
    /\ agg = AggIdle
    /\ hf = HfIdle
    /\ corr = CorrIdle
    /\ sig = SigIdle
    /\ route = RouteIdle
    /\ fb = FbIdle

Next ==
    \/ RoutePost \/ RouteExtracted \/ RouteAnalyzerSettles
    \/ RouteJoin \/ RouteReject \/ RouteNext

Spec == Init /\ [][Next]_vars

NextAgg == Aggregate \/ AggregateNext

NextHf ==
    \/ HfCall \/ HfFetchFails \/ HfLoading \/ HfRetry \/ HfNotOk \/ HfOk
    \/ HfWrapper \/ HfNext

SpecHf == Init /\ [][NextHf]_vars

NextAn ==
    \/ SyntheticCall \/ SyntheticResume
    \/ SourcingCall \/ SourcingResume
    \/ LinguisticCall \/ LinguisticResume
    \/ TemporalCall \/ TemporalResume
    \/ StructuralCall
    \/ AnalyzerAgain
    \/ AnalyzerNext

SpecAn == Init /\ [][NextAn]_vars

NextCorr == CorrCall \/ CorrFetchFails \/ CorrNotOk \/ CorrOk \/ CorrNext

SpecCorr == Init /\ [][NextCorr]_vars

SpecAgg == Init /\ [][NextAgg]_vars

NextFb == FbStart \/ FbPost \/ FbImported \/ FbInserted

SpecFb == Init /\ [][NextFb]_vars

\* the clients and the route, one call at a time
NextLive ==
    \/ corr.pc = "idle" /\ route.pc = "idle" /\ NextHf
    \/ hf.pc = "idle" /\ route.pc = "idle" /\ NextCorr
    \/ hf.pc = "idle" /\ corr.pc = "idle" /\ Next

\* Whether a call ends does not depend on the words of the text or on the
\* articles of an ok answer: of the pasted texts the uniform ones are kept, of
\* the news answers those the analyzers are given; every status, failure and
\* malformed answer stays.
LiveRequests ==
    {request \in Requests :
        \/ request.text.t # "text"
        \/ request.text.body \notin PipelineBodies
        \/ \E b \in BOOLEAN :
              request.text.body \in
                {PipelineBody(text, b, b, b, b, b) :
                    text \in {Alternating(MaxSentences, <<5, 15>>), Alternating(1, <<10, 10>>)}}}

LiveSample ==
    /\ corr.data \in {JUndef, NotJson} \cup NewsAnswers
    /\ route.request \in LiveRequests \cup {RouteIdle.request}

\* No request stays open for ever: each fetch carries an AbortSignal.timeout
\* and fails when it fires, unless it was answered before; the backoff timer
\* fires; the event loop runs every continuation that is ready.
SpecLive ==
    /\ Init /\ [][NextLive /\ LiveSample']_vars
    /\ WF_vars(HfFetchFails) /\ WF_vars(HfRetry) /\ WF_vars(HfWrapper)
    /\ WF_vars(CorrFetchFails)
    /\ WF_vars(RouteExtracted) /\ WF_vars(RouteCallTimesOut)
    /\ WF_vars(RouteJoin) /\ WF_vars(RouteReject)

====
